---- MODULE Spec2Model ----
(***************************************************************************)
(* Model of the Seafowl context layer: the versioned catalog repository   *)
(* (src/src/repository/default.rs), the planning and execution context     *)
(* (src/src/context.rs) and the Flight ingestion handler                   *)
(* (src/src/frontend/flight/handler.rs).                                   *)
(***************************************************************************)
EXTENDS Integers, Sequences, FiniteSets, TLC

\* ------------------------------------------------------------------ bounds
MaxCalls == 3
MaxTables == 2
MaxVersionRows == 3
MaxClock == 1
MaxDeltaVersion == 1
MaxSeq == 3
MaxPuts == 3
MaxWait == 4
MaxQueries == 3

\* ------------------------------------------------------------------ state
VARIABLES
    database,        \* catalog: rows of "database"
    collection,      \* catalog: rows of "collection"
    table,           \* catalog: rows of "table"
    table_version,   \* catalog: rows of "table_version"
    table_column,    \* catalog: rows of "table_column"
    dropped_table,   \* catalog: rows of "dropped_table"
    ids,             \* catalog: autoincrement counters and the uuid generator
    now,             \* wall clock used for DEFAULT CURRENT_TIMESTAMP columns
    ncalls,          \* number of operations started so far
    task,            \* per session: the statement / repository call in flight
    delta,           \* object store: the transaction log of the table at each uuid
    objects,         \* object store: the rows of each data file, by path
    snap,            \* history: the rows of each table right after each commit
    ref,             \* history: the reference relation of each table
    dest_log,        \* ingestion: the transaction log at each destination
    lock,            \* ingestion: the holder of put_manager's write lock
    mem_seq,         \* ingestion: put_manager's in-memory sequence numbers
    put,             \* ingestion: per caller, the process_put_cmd call in flight
    engine,          \* this instance: the registered catalog and the queries being planned
    function,        \* catalog: rows of "function"
    all_database_ids,\* this process: the shared map of database names to ids
    udfs,            \* this instance: the functions registered in the query engine
    reply,           \* per session: what the last DDL statement returned
    http,            \* per session: the cached-read GET request being answered
    results,         \* flight handler: the query ids that hold a result stream
    streams,         \* history: what became of the query behind each query id
    flight,          \* per client: the handler call in flight and what it returned
    physical_partition,\* catalog: rows of physical_partition (legacy tables)
    table_partition, \* catalog: rows of table_partition (legacy tables)
    internal_object_store,\* object store: the ids of the partition objects it holds
    vacuum           \* per session: the VACUUM statement in flight

catVars == <<database, collection, table, table_version, table_column, dropped_table, ids,
             function>>
ctxVars == <<all_database_ids, udfs, reply, http>>
storeVars == <<delta, objects, snap, ref>>
putVars == <<dest_log, lock, mem_seq, put>>
flightVars == <<results, streams, flight>>
partVars == <<physical_partition, table_partition, internal_object_store, vacuum>>
vars == <<database, collection, table, table_version, table_column, dropped_table, ids, now,
          ncalls, task, delta, objects, snap, ref, dest_log, lock, mem_seq, put, engine,
          function, all_database_ids, udfs, reply, http,
          results, streams, flight,
          physical_partition, table_partition, internal_object_store, vacuum>>

\* The context the statements run on: DefaultSeafowlContext.database(_id).
self_database == "default"
self_database_id == 1

Procs == {1, 2}
Names == {"t", "u"}
Schemas == {{"a"}}
DEFAULT_SCHEMA == "public"
NoId == 0
NoProc == 0
NoSeq == 0
Uuids == 1..MaxTables
Dests == {"d1", "d2"}
Vals == 0..2          \* 0 stands for NULL
NULL == 0
NoRows == [v \in Vals |-> 0]
PutIdle == [pc |-> "idle", dest |-> "", seq |-> NoSeq, rows |-> 0, dur_seq |-> NoSeq,
            mem_seq |-> NoSeq, res |-> "none", id |-> NoId, waited |-> 0]
Idle ==
    [stmt |-> "none", pc |-> "none", call |-> "none", cpc |-> 0, name |-> "", coll |-> NoId,
     uuid |-> NoId, ver |-> 0, tid |-> NoId, vid |-> NoId, last |-> NoId, schema |-> {},
     removes |-> {}, rows |-> NoRows, at |-> <<>>, db |-> NoId]

\* A repository call that returns Ok hands control back to the statement that
\* made it. CREATE TABLE AS goes on after create_table (context.rs 1147-1151);
\* every other caller returns Ok(make_dummy_exec()) right after the call.
RetOk(t) ==
    IF t.stmt = "ctas" /\ t.call = "create_table"
    THEN [t EXCEPT !.call = "none", !.cpc = 0, !.pc = "reload", !.tid = NoId, !.vid = NoId,
                   !.schema = {}, !.uuid = NoId]
    ELSE Idle

\* What the statement handed back: Ok(make_dummy_exec()) or the error.
Replied(p, stmt, res, id) == [reply EXCEPT ![p] = [stmt |-> stmt, res |-> res, id |-> id]]

\* interpret_error: the backend's error becomes an error of the repository.
interpret_error(e) ==
    CASE e = "UniqueViolation" -> "ConflictError"
      [] e = "FKViolation" -> "NotFoundError"
      [] e = "RowNotFound" -> "NotFoundError"
      [] OTHER -> e

\* ------------------------------------------------------------ catalog reads
CollectionIds == {c.id : c \in collection}
TableIds == {t.id : t \in table}
VersionsOf(tid) == {v \in table_version : v.table_id = tid}

\* UNIQUE (collection_id, name) on "table"
UniqueViolation(tbls, coll, name) ==
    \E t \in tbls : t.collection_id = coll /\ t.name = name

\* ORDER BY creation_time DESC, id DESC
RanksBefore(v, w) ==
    \/ v.creation_time > w.creation_time
    \/ (v.creation_time = w.creation_time /\ v.id > w.id)

\* first_value(id) OVER (PARTITION BY table_id ORDER BY creation_time DESC, id DESC)
first_value(tv, tid) ==
    LET part == {v \in tv : v.table_id = tid}
    IN (CHOOSE v \in part : \A w \in part \ {v} : RanksBefore(v, w)).id

\* ON DELETE CASCADE from "table" to table_version to table_column
CascadeVersions(tbls, tv) == {v \in tv : \E t \in tbls : t.id = v.table_id}
CascadeColumns(tv, cols) == {c \in cols : \E v \in tv : v.id = c.table_version_id}
CascadePartitions(tv, parts) == {x \in parts : \E v \in tv : v.id = x.table_version_id}

\* ------------------------------------------------------------ object store
\* Rows are kept as multisets: a function from value to number of copies.
RECURSIVE SumOver(_, _)
SumOver(S, f) ==
    IF S = {} THEN 0
    ELSE LET x == CHOOSE y \in S : TRUE IN f[x] + SumOver(S \ {x}, f)

AddRows(a, b) == [v \in Vals |-> a[v] + b[v]]
CountRows(b) == SumOver(Vals, b)

\* The version of the latest commit of a log (DeltaTable::version).
Version(log) == Len(log) - 1

\* The files of a table at version k: the log replayed up to commit k.
RECURSIVE FilesAt(_, _)
FilesAt(log, k) ==
    IF k < 0 THEN {}
    ELSE (FilesAt(log, k - 1) \ log[k + 1].removes) \cup log[k + 1].adds

RECURSIVE RowsOfFiles(_, _)
RowsOfFiles(objs, files) ==
    IF files = {} THEN NoRows
    ELSE LET f == CHOOSE g \in files : TRUE
         IN AddRows(objs[f], RowsOfFiles(objs, files \ {f}))

\* What a scan of the table at version k returns.
RowsAt(objs, log, k) == RowsOfFiles(objs, FilesAt(log, k))

\* write_execution_plan / WriteBuilder: the rows go to one new file with a
\* fresh path; no file is written for zero rows.
written_path(objs, rows, removes) == Len(objs) + 1

written_objects(objs, rows, removes) ==
    IF CountRows(rows) = 0 THEN objs ELSE Append(objs, rows)

written_adds(objs, rows, removes) ==
    IF CountRows(rows) = 0 THEN {} ELSE {written_path(objs, rows, removes)}

\* The atomic commit of the storage format: the actions become the next version.
committed_log_lost(log, adds, removes, ts) == log

committed_log(log, adds, removes, ts) ==
    Append(log, [adds |-> adds, removes |-> removes, ts |-> ts])

\* Uuid::new_v4(): a uuid no table has had.
StorageUuids == {u \in Uuids : delta[u] # <<>>}
new_v4 == CHOOSE u \in Uuids : u \notin StorageUuids

\* ------------------------------------------------------------ create_table
\* INSERT INTO "table" (collection_id, name, uuid) VALUES ($1, $2, $3) RETURNING (id)
create_table_insert_table(p, collection_id, table_name, schema, uuid) ==
    /\ task[p].call = "create_table" /\ task[p].cpc = 1
    /\ ids.table < MaxTables
    /\ IF collection_id \notin CollectionIds \/ UniqueViolation(table, collection_id, table_name)
       THEN /\ task' = [task EXCEPT ![p] = Idle]
            /\ UNCHANGED <<table, ids>>
       ELSE /\ table' = table \cup {[id |-> ids.table + 1, collection_id |-> collection_id,
                                      name |-> table_name, uuid |-> uuid, legacy |-> FALSE]}
            /\ ids' = [ids EXCEPT !.table = @ + 1]
            /\ task' = [task EXCEPT ![p] = [@ EXCEPT !.cpc = 2, !.tid = ids.table + 1,
                                                     !.schema = schema]]
    /\ UNCHANGED <<database, collection, table_version, table_column, dropped_table, now, ncalls, storeVars, putVars, engine, function, ctxVars, flightVars, partVars>>

\* INSERT INTO table_version (table_id) VALUES ($1) RETURNING (id)
create_table_insert_version(p) ==
    LET t == task[p] IN
    /\ t.call = "create_table" /\ t.cpc = 2
    /\ ids.version < MaxVersionRows
    /\ IF t.tid \notin TableIds
       THEN /\ task' = [task EXCEPT ![p] = Idle]
            /\ UNCHANGED <<table_version, ids>>
       ELSE /\ table_version' = table_version \cup
                  {[id |-> ids.version + 1, table_id |-> t.tid, version |-> 0,
                    creation_time |-> now]}
            /\ ids' = [ids EXCEPT !.version = @ + 1]
            /\ task' = [task EXCEPT ![p] = [t EXCEPT !.cpc = 3, !.vid = ids.version + 1]]
    /\ UNCHANGED <<database, collection, table, table_column, dropped_table, now, ncalls, storeVars, putVars, engine, function, ctxVars, flightVars, partVars>>

\* INSERT INTO table_column(table_version_id, name, type) ... ; Ok((id, version id))
create_table_insert_columns(p) ==
    LET t == task[p] IN
    /\ t.call = "create_table" /\ t.cpc = 3
    /\ IF t.schema # {} /\ ~(\E v \in table_version : v.id = t.vid)
       THEN /\ task' = [task EXCEPT ![p] = Idle]
            /\ UNCHANGED table_column
       ELSE /\ table_column' = table_column \cup
                  {[table_version_id |-> t.vid, name |-> c] : c \in t.schema}
            /\ task' = [task EXCEPT ![p] = RetOk(t)]
    /\ UNCHANGED <<database, collection, table, table_version, dropped_table, ids, now, ncalls, storeVars, putVars, engine, function, ctxVars, flightVars, partVars>>

\* ------------------------------------------------ create_new_table_version
\* SELECT max(table_version.id) ... JOIN "table" ... WHERE "table".uuid = $1
max_version_id(uuid) ==
    LET rows == {v \in table_version : \E t \in table : t.id = v.table_id /\ t.uuid = uuid}
    IN IF rows = {} THEN NoId
       ELSE (CHOOSE v \in rows : \A w \in rows : w.id <= v.id).id

\* fetch_one on an aggregate always finds its one row; over no version rows
\* max() is NULL there and try_get("id") cannot decode it into an id.
create_new_table_version_select_error(uuid) ==
    IF max_version_id(uuid) = NoId THEN "ColumnDecode" ELSE "none"

create_new_table_version_select(p, uuid, version) ==
    /\ task[p].call = "create_new_table_version" /\ task[p].cpc = 1
    /\ IF create_new_table_version_select_error(uuid) # "none"
       THEN task' = [task EXCEPT ![p] = Idle]
       ELSE task' = [task EXCEPT ![p] = [@ EXCEPT !.cpc = 2, !.last = max_version_id(uuid),
                                                  !.ver = version]]
    /\ UNCHANGED <<database, collection, table, table_version, table_column, dropped_table, ids, now, ncalls, storeVars, putVars, engine, function, ctxVars, flightVars, partVars>>

\* INSERT INTO table_version (table_id, version)
\*   SELECT table_id, $1 FROM table_version WHERE id = $2 RETURNING (id)
create_new_table_version_insert(p) ==
    LET t == task[p]
        src == {v \in table_version : v.id = t.last}
    IN
    /\ t.call = "create_new_table_version" /\ t.cpc = 2
    /\ ids.version < MaxVersionRows
    /\ IF src = {}
       THEN /\ task' = [task EXCEPT ![p] = Idle]
            /\ UNCHANGED <<table_version, ids>>
       ELSE /\ table_version' = table_version \cup
                  {[id |-> ids.version + 1, table_id |-> v.table_id, version |-> t.ver,
                    creation_time |-> now] : v \in src}
            /\ ids' = [ids EXCEPT !.version = @ + 1]
            /\ task' = [task EXCEPT ![p] = [t EXCEPT !.cpc = 3, !.vid = ids.version + 1]]
    /\ UNCHANGED <<database, collection, table, table_column, dropped_table, now, ncalls, storeVars, putVars, engine, function, ctxVars, flightVars, partVars>>

\* INSERT INTO table_column (table_version_id, name, type)
\*   SELECT $2, name, type FROM table_column WHERE table_version_id = $1
create_new_table_version_columns(p) ==
    LET t == task[p]
        src == {c \in table_column : c.table_version_id = t.last}
    IN
    /\ t.call = "create_new_table_version" /\ t.cpc = 3
    /\ IF src # {} /\ ~(\E v \in table_version : v.id = t.vid)
       THEN /\ task' = [task EXCEPT ![p] = Idle]
            /\ UNCHANGED table_column
       ELSE /\ table_column' = table_column \cup
                  {[table_version_id |-> t.vid, name |-> c.name] : c \in src}
            /\ task' = [task EXCEPT ![p] = RetOk(t)]
    /\ UNCHANGED <<database, collection, table, table_version, dropped_table, ids, now, ncalls, storeVars, putVars, engine, function, ctxVars, flightVars, partVars>>

\* ----------------------------------------------- delete_old_table_versions
NoTable == 0

\* DELETE FROM table_version WHERE [table_id = $1 AND] id NOT IN
\*   (SELECT DISTINCT first_value(id) OVER (...) FROM table_version)
old_table_versions(tv, table_id) ==
    {v \in tv : /\ (table_id # NoTable => v.table_id = table_id)
                /\ v.id \notin {first_value(tv, w.table_id) : w \in tv}}

\* Ok(delete_result.rows_affected())
rows_affected(tv, table_id) == Cardinality(old_table_versions(tv, table_id))

delete_old_table_versions(p, table_id) ==
    /\ task[p] = Idle
    /\ ncalls < MaxCalls
    /\ ncalls' = ncalls + 1
    /\ table_version' = table_version \ old_table_versions(table_version, table_id)
    /\ table_column' = CascadeColumns(table_version', table_column)
    /\ table_partition' = CascadePartitions(table_version', table_partition)
    /\ UNCHANGED <<database, collection, table, dropped_table, ids, now, task, storeVars, putVars, engine, function, ctxVars, flightVars, physical_partition, internal_object_store, vacuum>>

\* -------------------------------------------------------------- move_table
NoColl == 0

\* UPDATE "table" SET name = $1 [, collection_id = $2] WHERE id = $3 RETURNING id
moved_tables_same_schema(tbls, table_id, new_table_name, new_collection_id) ==
    {IF t.id = table_id THEN [t EXCEPT !.name = new_table_name] ELSE t : t \in tbls}

moved_tables(tbls, table_id, new_table_name, new_collection_id) ==
    {IF t.id = table_id
     THEN [t EXCEPT !.name = new_table_name,
                    !.collection_id = IF new_collection_id = NoColl THEN @
                                      ELSE new_collection_id]
     ELSE t : t \in tbls}

\* fetch_one on UPDATE ... RETURNING id: no row comes back when no row has the
\* id; execute() would report zero rows affected and succeed.
move_table_error_execute(tbls, table_id, new_table_name, new_collection_id) ==
    IF ~(\E t \in tbls : t.id = table_id) THEN "none"
    ELSE IF new_collection_id # NoColl /\ new_collection_id \notin CollectionIds
    THEN "FKViolation"
    ELSE IF \E t \in tbls : t.id = table_id /\
               UniqueViolation(tbls \ {t},
                               IF new_collection_id = NoColl THEN t.collection_id
                               ELSE new_collection_id,
                               new_table_name)
    THEN "UniqueViolation"
    ELSE "none"

move_table_error(tbls, table_id, new_table_name, new_collection_id) ==
    IF ~(\E t \in tbls : t.id = table_id) THEN "RowNotFound"
    ELSE IF new_collection_id # NoColl /\ new_collection_id \notin CollectionIds
    THEN "FKViolation"
    ELSE IF \E t \in tbls : t.id = table_id /\
               UniqueViolation(tbls \ {t},
                               IF new_collection_id = NoColl THEN t.collection_id
                               ELSE new_collection_id,
                               new_table_name)
    THEN "UniqueViolation"
    ELSE "none"

move_table_ok(tbls, table_id, new_table_name, new_collection_id) ==
    move_table_error(tbls, table_id, new_table_name, new_collection_id) = "none"

move_table(p, table_id, new_table_name, new_collection_id) ==
    /\ task[p] = Idle
    /\ ncalls < MaxCalls
    /\ ncalls' = ncalls + 1
    /\ table' = IF move_table_ok(table, table_id, new_table_name, new_collection_id)
                THEN moved_tables(table, table_id, new_table_name, new_collection_id)
                ELSE table
    /\ UNCHANGED <<database, collection, table_version, table_column, dropped_table, ids, now, task, storeVars, putVars, engine, function, ctxVars, flightVars, partVars>>

\* -------------------------------------------------------------- drop_table
\* INSERT INTO dropped_table(database_name, collection_name, table_name, uuid)
\*   SELECT ... FROM "table" JOIN collection JOIN database
\*   WHERE "table".legacy IS FALSE AND "table".id = $1
tables_to_drop_legacy_too(tbls) ==
    {[database_name |-> x[1].name, collection_name |-> x[2].name, table_name |-> x[3].name,
      uuid |-> x[3].uuid, deletion_status |-> "PENDING"] :
        x \in {y \in database \X collection \X tbls :
                  /\ y[3].collection_id = y[2].id
                  /\ y[2].database_id = y[1].id}}

tables_to_drop(tbls) ==
    {[database_name |-> x[1].name, collection_name |-> x[2].name, table_name |-> x[3].name,
      uuid |-> x[3].uuid, deletion_status |-> "PENDING"] :
        x \in {y \in database \X collection \X tbls :
                  /\ y[3].collection_id = y[2].id
                  /\ y[2].database_id = y[1].id
                  /\ y[3].legacy = FALSE}}

insert_dropped_tables(p, table_id) ==
    /\ task[p].call = "drop_table" /\ task[p].cpc = 1
    /\ dropped_table' = dropped_table \cup tables_to_drop({x \in table : x.id = table_id})
    /\ task' = [task EXCEPT ![p] = [@ EXCEPT !.cpc = 2, !.tid = table_id]]
    /\ UNCHANGED <<database, collection, table, table_version, table_column, ids, now, ncalls, storeVars, putVars, engine, function, ctxVars, flightVars, partVars>>

\* DELETE FROM "table" WHERE id = $1 RETURNING id
tables_after_drop_kept(tbls, table_id) == tbls

tables_after_drop(tbls, table_id) == {x \in tbls : x.id # table_id}

drop_table_delete(p) ==
    LET t == task[p] IN
    /\ t.call = "drop_table" /\ t.cpc = 2
    /\ table' = tables_after_drop(table, t.tid)
    /\ table_version' = CascadeVersions(table', table_version)
    /\ table_column' = CascadeColumns(table_version', table_column)
    /\ table_partition' = CascadePartitions(table_version', table_partition)
    /\ task' = [task EXCEPT ![p] = IF t.tid \in TableIds THEN RetOk(t) ELSE Idle]
    /\ UNCHANGED <<database, collection, dropped_table, ids, now, ncalls, storeVars, putVars, engine, function, ctxVars, flightVars, physical_partition, internal_object_store, vacuum>>

\* -------------------------------------------------------------- statements
\* The table a name resolves to in the catalog loaded by reload_schema.
collection_id_by_name(schema_name) ==
    {c.id : c \in {d \in collection : d.name = schema_name /\ d.database_id = self_database_id}}

\* load_database joins "table" with its latest version and that version's columns
\* (INNER JOIN desired_table_versions, INNER JOIN table_column): a table without
\* a version, or whose latest version has no column yet, is not loaded.
loaded_tables ==
    {t \in table : /\ VersionsOf(t.id) # {}
                   /\ \E c \in table_column :
                         c.table_version_id = first_value(table_version, t.id)}

table_provider(schema_name, table_name) ==
    {t \in loaded_tables :
        t.name = table_name /\ t.collection_id \in collection_id_by_name(schema_name)}

\* get_table_id_by_name: "table" JOIN collection JOIN database, by the three names.
get_table_id_by_name(schema_name, table_name) ==
    {x.id : x \in {y \in table : /\ y.name = table_name
                                 /\ y.collection_id \in collection_id_by_name(schema_name)}}

\* WHERE a = c on one row, in SQL's three-valued logic; sel = <<>> is no WHERE.
evaluate(sel, v) == IF v = NULL THEN "null" ELSE IF v = sel[1] THEN "true" ELSE "false"
negate(b) == IF b = "null" THEN "null" ELSE IF b = "true" THEN "false" ELSE "true"

\* The rows of a multiset sent through f; f[v] = "drop" removes the row.
map_rows(rows, f) == [w \in Vals |-> SumOver({v \in Vals : f[v] = <<w>>}, rows)]

\* PruningPredicate::prune over the files' min/max statistics: a file is kept
\* unless its statistics prove that no row can match.
prune(objs, files, sel) ==
    {f \in files :
        LET nn == {v \in Vals \ {NULL} : objs[f][v] > 0}
        IN nn = {} \/ ((\E v \in nn : v <= sel[1]) /\ (\E v \in nn : sel[1] <= v))}

\* ProjectionExec over project_expressions: CASE WHEN selection THEN value ELSE column.
update_projection(rows, sel, val) ==
    map_rows(rows, [v \in Vals |->
        IF sel = <<>> \/ evaluate(sel, v) = "true" THEN <<val>> ELSE <<v>>])

\* FilterExec over NOT predicate: a row is kept when the filter is true.
delete_filter(rows, sel) ==
    map_rows(rows, [v \in Vals |->
        IF negate(evaluate(sel, v)) = "true" THEN <<v>> ELSE <<>>])

\* The reference relation: the same statements under SQL semantics.
RefUpdate(rows, sel, val) ==
    [w \in Vals |-> SumOver({v \in Vals :
        IF sel = <<>> \/ (v # NULL /\ v = sel[1]) THEN w = val ELSE w = v}, rows)]
RefDelete(rows, sel) ==
    [w \in Vals |-> IF sel = <<>> \/ (w # NULL /\ w = sel[1]) THEN 0 ELSE rows[w]]

Begin(p) == task[p] = Idle /\ ncalls < MaxCalls /\ ncalls' = ncalls + 1

\* CREATE TABLE / CREATE TABLE AS: create_delta_table looks the schema up first.
create_delta_table_lookup(p, stmt, schema_name, table_name, schema, rows) ==
    /\ Begin(p)
    /\ task' = [task EXCEPT ![p] =
          IF collection_id_by_name(schema_name) = {} THEN Idle
          ELSE [Idle EXCEPT !.stmt = stmt, !.pc = "storage", !.name = table_name,
                            !.coll = CHOOSE c \in collection_id_by_name(schema_name) : TRUE,
                            !.schema = schema, !.rows = rows]]
    /\ UNCHANGED <<catVars, now, storeVars, putVars, engine, ctxVars, flightVars, partVars>>

\* A table needs at least one column: the statement is refused before the
\* first commit ("At least one column must be defined to create a table.").
columns_defined_any(schema) == TRUE

columns_defined(schema) == schema # {}

\* CreateBuilder commits version 0 of a table under a new uuid; create_table follows.
create_delta_table_storage(p) ==
    LET t == task[p] IN
    /\ t.pc = "storage"
    /\ StorageUuids # Uuids
    /\ IF ~columns_defined(t.schema)
       THEN /\ task' = [task EXCEPT ![p] = Idle]
            /\ UNCHANGED <<delta, snap>>
       ELSE /\ delta' = [delta EXCEPT ![new_v4] = committed_log(<<>>, {}, {}, now)]
            /\ snap' = [snap EXCEPT ![new_v4] = <<NoRows>>]
            /\ task' = [task EXCEPT ![p] = [t EXCEPT !.pc = "catalog", !.uuid = new_v4,
                                                    !.call = "create_table", !.cpc = 1]]
    /\ UNCHANGED <<catVars, now, ncalls, objects, ref, putVars, engine, ctxVars, flightVars, partVars>>

\* CREATE TABLE AS: reload_schema, then plan_to_delta_table resolves the name again.
ctas_reload_schema(p) ==
    LET t == task[p]
        found == {x \in loaded_tables : x.name = t.name /\ x.collection_id = t.coll}
    IN
    /\ t.pc = "reload"
    /\ task' = [task EXCEPT ![p] =
          IF found = {} THEN Idle
          ELSE [t EXCEPT !.pc = "write", !.uuid = (CHOOSE x \in found : TRUE).uuid]]
    /\ UNCHANGED <<catVars, now, ncalls, storeVars, putVars, engine, ctxVars, flightVars, partVars>>

\* INSERT INTO name VALUES rows: planning resolves the table.
stmt_insert(p, schema_name, table_name, rows) ==
    LET found == table_provider(schema_name, table_name) IN
    /\ Begin(p)
    /\ IF found = {}
       THEN UNCHANGED <<task, ref>>
       ELSE LET uuid == (CHOOSE x \in found : TRUE).uuid IN
            /\ ref' = [ref EXCEPT ![uuid] = AddRows(@, rows)]
            /\ task' = [task EXCEPT ![p] =
                  [Idle EXCEPT !.stmt = "insert", !.pc = "write", !.name = table_name,
                               !.uuid = uuid, !.rows = rows]]
    /\ UNCHANGED <<catVars, now, delta, objects, snap, putVars, engine, ctxVars, flightVars, partVars>>

\* INSERT INTO name SELECT * FROM source: the input plan scans the source table
\* as the catalog loaded it when the statement was planned.
stmt_insert_select(p, schema_name, table_name, source_name) ==
    LET found == table_provider(schema_name, table_name)
        source == table_provider(schema_name, source_name)
    IN
    /\ Begin(p)
    /\ IF found = {} \/ source = {}
       THEN UNCHANGED <<task, ref>>
       ELSE LET uuid == (CHOOSE x \in found : TRUE).uuid
                from == (CHOOSE x \in source : TRUE).uuid
            IN
            /\ ref' = [ref EXCEPT ![uuid] = AddRows(@, ref[from])]
            /\ task' = [task EXCEPT ![p] =
                  [Idle EXCEPT !.stmt = "insert", !.pc = "write", !.name = table_name,
                       !.uuid = uuid,
                       !.rows = RowsAt(objects, delta[from], Version(delta[from]))]]
    /\ UNCHANGED <<catVars, now, delta, objects, snap, putVars, engine, ctxVars, flightVars, partVars>>

\* plan_to_delta_table: WriteBuilder writes the rows and commits the next
\* version; create_new_table_version(table_uuid, table.version()) follows.
plan_to_delta_table_write(p) ==
    LET t == task[p]
        log == delta[t.uuid]
        adds == written_adds(objects, t.rows, {})
    IN
    /\ t.pc = "write"
    /\ log # <<>>
    /\ objects' = written_objects(objects, t.rows, {})
    /\ delta' = [delta EXCEPT ![t.uuid] = committed_log(log, adds, {}, now)]
    /\ snap' = [snap EXCEPT ![t.uuid] =
                   Append(@, RowsAt(objects', delta'[t.uuid], Version(delta'[t.uuid])))]
    /\ ref' = IF t.stmt = "ctas" THEN [ref EXCEPT ![t.uuid] = AddRows(@, t.rows)] ELSE ref
    /\ task' = [task EXCEPT ![p] = [t EXCEPT !.pc = "catalog", !.ver = Version(log) + 1,
                                            !.call = "create_new_table_version", !.cpc = 1]]
    /\ UNCHANGED <<catVars, now, ncalls, putVars, engine, ctxVars, flightVars, partVars>>

\* UPDATE name SET a = val [WHERE a = c]: load the table, choose the files to
\* rewrite, return early when there are none.
\* if removes.is_empty() { return Ok(make_dummy_exec()) }: nothing to update.
removes_is_empty_ignored(removes) == FALSE

removes_is_empty(removes) == removes = {}

stmt_update(p, schema_name, table_name, sel, val) ==
    LET found == table_provider(schema_name, table_name)
        uuid == (CHOOSE x \in found : TRUE).uuid
        files == FilesAt(delta[uuid], Version(delta[uuid]))
        removes == IF sel = <<>> THEN files ELSE prune(objects, files, sel)
    IN
    /\ Begin(p)
    /\ IF found = {}
       THEN UNCHANGED <<task, ref>>
       ELSE /\ ref' = [ref EXCEPT ![uuid] = RefUpdate(@, sel, val)]
            /\ task' = [task EXCEPT ![p] =
                  IF removes_is_empty(removes) THEN Idle
                  ELSE [Idle EXCEPT !.stmt = "update", !.pc = "commit", !.name = table_name,
                           !.uuid = uuid, !.removes = removes,
                           !.rows = update_projection(RowsOfFiles(objects, removes), sel, val)]]
    /\ UNCHANGED <<catVars, now, delta, objects, snap, putVars, engine, ctxVars, flightVars, partVars>>

\* DELETE FROM name [WHERE a = c]: without WHERE every file is removed.
stmt_delete(p, schema_name, table_name, sel) ==
    LET found == table_provider(schema_name, table_name)
        uuid == (CHOOSE x \in found : TRUE).uuid
        files == FilesAt(delta[uuid], Version(delta[uuid]))
        removes == IF sel = <<>> THEN files ELSE prune(objects, files, sel)
    IN
    /\ Begin(p)
    /\ IF found = {}
       THEN UNCHANGED <<task, ref>>
       ELSE /\ ref' = [ref EXCEPT ![uuid] = RefDelete(@, sel)]
            /\ task' = [task EXCEPT ![p] =
                  [Idle EXCEPT !.stmt = "delete", !.pc = "commit", !.name = table_name,
                       !.uuid = uuid, !.removes = removes,
                       !.rows = IF sel = <<>> THEN NoRows
                                ELSE delete_filter(RowsOfFiles(objects, removes), sel)]]
    /\ UNCHANGED <<catVars, now, delta, objects, snap, putVars, engine, ctxVars, flightVars, partVars>>

\* ALTER TABLE old RENAME TO new: planning refuses a missing source and an
\* existing target; execution looks the table id up and calls move_table.
\* Planning of ALTER TABLE ... RENAME TO: the source must resolve and the
\* target must not.
rename_plan_error(old_schema, old_name, new_schema, new_name) ==
    \/ table_provider(old_schema, old_name) = {}
    \/ table_provider(new_schema, new_name) # {}

\* A text with more or fewer than one statement, or a statement of a shape
\* that is not supported: planning returns the error and nothing else happens.
stmt_unplannable(p) ==
    /\ Begin(p)
    /\ UNCHANGED <<catVars, now, task, storeVars, putVars, engine, ctxVars, flightVars, partVars>>

\* What ALTER TABLE old RENAME TO new returns, the target being in the database
\* of the context: the planning checks, then the lookups of the execution,
\* then move_table.
rename_table_error(old_schema, old_name, new_schema, new_name) ==
    IF rename_plan_error(old_schema, old_name, new_schema, new_name) THEN "PlanError"
    ELSE IF get_table_id_by_name(old_schema, old_name) = {} THEN "ExecutionError"
    ELSE IF new_schema # old_schema /\ collection_id_by_name(new_schema) = {} THEN "PlanError"
    ELSE interpret_error(
            move_table_error(table,
                             CHOOSE id \in get_table_id_by_name(old_schema, old_name) : TRUE,
                             new_name,
                             IF new_schema # old_schema
                             THEN CHOOSE c \in collection_id_by_name(new_schema) : TRUE
                             ELSE NoColl))

\* The target names another database: planning does not find the target (its
\* catalog is not registered in this context), the execution refuses.
stmt_rename_database(p, old_schema, old_name, new_catalog, new_schema, new_name) ==
    /\ Begin(p)
    /\ new_catalog # self_database
    /\ reply' = Replied(p, "rename_table", "PlanError", NoId)
    /\ UNCHANGED <<catVars, now, task, storeVars, putVars, engine, all_database_ids, udfs,
                   http, flightVars, partVars>>

stmt_rename(p, old_schema, old_name, new_schema, new_name) ==
    LET found == table_provider(old_schema, old_name)
        table_id == (CHOOSE x \in found : TRUE).id
        new_schema_id == IF new_schema # old_schema
                         THEN CHOOSE c \in collection_id_by_name(new_schema) : TRUE
                         ELSE NoColl
    IN
    /\ Begin(p)
    /\ table' = IF rename_table_error(old_schema, old_name, new_schema, new_name) = "none"
                THEN moved_tables(table, table_id, new_name, new_schema_id)
                ELSE table
    /\ UNCHANGED <<database, collection, table_version, table_column, dropped_table, ids,
                   now, task, storeVars, putVars, engine, function, ctxVars, flightVars, partVars>>

\* DeltaTable::load_with_datetime: the latest version committed at or before
\* the timestamp (version 0 when the timestamp is older than every commit).
load_latest(log, datetime) == Version(log)

load_with_datetime(log, datetime) ==
    LET upto == {k \in 0..Version(log) : log[k + 1].ts <= datetime}
    IN IF upto = {} THEN 0 ELSE CHOOSE k \in upto : \A j \in upto : j <= k

\* SELECT * FROM name, or FROM name('timestamp'): planning resolves the table
\* and, for a timestamp, loads the version it names; at = <<>> is the plain form.
stmt_select(p, schema_name, table_name, at) ==
    LET found == table_provider(schema_name, table_name)
        uuid == (CHOOSE x \in found : TRUE).uuid
    IN
    /\ task[p] = Idle
    /\ found # {}
    /\ task' = [task EXCEPT ![p] =
          [Idle EXCEPT !.stmt = "select", !.pc = "planned", !.name = table_name, !.uuid = uuid,
                       !.at = at,
                       !.ver = IF at = <<>> THEN Version(delta[uuid])
                               ELSE load_with_datetime(delta[uuid], at[1])]]
    /\ UNCHANGED <<catVars, now, ncalls, storeVars, putVars, engine, ctxVars, flightVars, partVars>>

\* execute_stream: the scan reads the files of the loaded version.
execute_stream(p) ==
    LET t == task[p] IN
    /\ t.stmt = "select" /\ t.pc = "planned"
    /\ task' = [task EXCEPT ![p] =
          [t EXCEPT !.pc = "fetched", !.rows = RowsAt(objects, delta[t.uuid], t.ver)]]
    /\ UNCHANGED <<catVars, now, ncalls, storeVars, putVars, engine, ctxVars, flightVars, partVars>>

\* The rows have been handed to the client.
fetch_stream(p) ==
    /\ task[p].stmt = "select" /\ task[p].pc = "fetched"
    /\ task' = [task EXCEPT ![p] = Idle]
    /\ UNCHANGED <<catVars, now, ncalls, storeVars, putVars, engine, ctxVars, flightVars, partVars>>

\* write_execution_plan, then tx.commit of the adds and removes;
\* create_new_table_version(uuid, version) follows.
commit_actions(p) ==
    LET t == task[p]
        log == delta[t.uuid]
        adds == written_adds(objects, t.rows, t.removes)
    IN
    /\ t.pc = "commit"
    /\ objects' = written_objects(objects, t.rows, t.removes)
    /\ delta' = [delta EXCEPT ![t.uuid] = committed_log(log, adds, t.removes, now)]
    /\ snap' = [snap EXCEPT ![t.uuid] =
                   Append(@, RowsAt(objects', delta'[t.uuid], Version(delta'[t.uuid])))]
    /\ task' = [task EXCEPT ![p] = [t EXCEPT !.pc = "catalog", !.ver = Version(log) + 1,
                                            !.call = "create_new_table_version", !.cpc = 1]]
    /\ UNCHANGED <<catVars, now, ncalls, ref, putVars, engine, ctxVars, flightVars, partVars>>

\* Any await of a statement can return Err (the ? operator), and the process
\* can stop at any point: the statement ends where it is, nothing is undone.
stmt_error(p) ==
    /\ task[p].stmt # "none"
    /\ task' = [task EXCEPT ![p] = Idle]
    /\ UNCHANGED <<catVars, now, ncalls, storeVars, putVars, engine, ctxVars, flightVars, partVars>>

\* ------------------------------------------------------------ process_put_cmd
\* The sequence number in the metadata of the latest commit (history(Some(1))).
durable_sequence_first(log) == log[1].seq

durable_sequence(log) == log[Len(log)].seq

Returned(t, res) == [PutIdle EXCEPT !.dest = t.dest, !.seq = t.seq, !.rows = t.rows,
                                    !.dur_seq = t.dur_seq, !.mem_seq = t.mem_seq, !.res = res,
                                    !.id = t.id]

\* is_delta_table_location: no table yet -> create one; else load it and read
\* the sequence number of its latest commit.
put_begin(p, dest, sequence_number, num_rows) ==
    /\ put[p].pc = "idle"
    /\ ncalls < MaxPuts
    /\ ncalls' = ncalls + 1
    /\ put' = [put EXCEPT ![p] =
          IF dest_log[dest] = <<>>
          THEN [PutIdle EXCEPT !.pc = "create", !.dest = dest, !.seq = sequence_number,
                               !.rows = num_rows, !.id = ncalls + 1]
          ELSE [PutIdle EXCEPT !.pc = "read", !.dest = dest, !.seq = sequence_number,
                               !.rows = num_rows, !.id = ncalls + 1,
                               !.dur_seq = durable_sequence(dest_log[dest])]]
    /\ UNCHANGED <<catVars, now, task, storeVars, dest_log, lock, mem_seq, engine, ctxVars, flightVars, partVars>>

\* CreateBuilder commits version 0 with the origin and the sequence number of
\* the command as metadata; it fails when a table has appeared in between.
put_create(p) ==
    LET t == put[p] IN
    /\ t.pc = "create"
    /\ IF dest_log[t.dest] # <<>>
       THEN /\ put' = [put EXCEPT ![p] = Returned(t, "error")]
            /\ UNCHANGED dest_log
       ELSE /\ dest_log' = [dest_log EXCEPT ![t.dest] =
                   <<[seq |-> t.seq, rows |-> 0, by |-> p, call |-> t.id, nonempty |-> (t.rows > 0),
                      locked |-> (lock = p)]>>]
            /\ put' = [put EXCEPT ![p] = [t EXCEPT !.pc = "read"]]
    /\ UNCHANGED <<catVars, now, ncalls, task, storeVars, lock, mem_seq, engine, ctxVars, flightVars, partVars>>

\* put_manager.read().await.mem_seq_for_table(&url).or(dur_seq); zero rows
\* return at once with accepted = true.
put_read_mem_seq(p) ==
    LET t == put[p]
        seen == [t EXCEPT !.mem_seq = IF mem_seq[t.dest] # NoSeq THEN mem_seq[t.dest]
                                      ELSE t.dur_seq]
    IN
    /\ t.pc = "read"
    /\ lock = NoProc
    /\ put' = [put EXCEPT ![p] = IF t.rows = 0 THEN Returned(seen, "empty")
                                 ELSE [seen EXCEPT !.pc = "wait", !.waited = 0]]
    /\ UNCHANGED <<catVars, now, ncalls, task, storeVars, dest_log, lock, mem_seq, engine, ctxVars, flightVars, partVars>>

\* tokio::time::timeout(3 s, put_manager.write()): Ok when the lock is free.
write_lock_ignored(l) == TRUE

write_lock_free(l) == l = NoProc

put_write_lock(p) ==
    /\ put[p].pc = "wait"
    /\ write_lock_free(lock)
    /\ lock' = p
    /\ put' = [put EXCEPT ![p] = [@ EXCEPT !.pc = "locked", !.waited = 0]]
    /\ UNCHANGED <<catVars, now, ncalls, task, storeVars, dest_log, mem_seq, engine, ctxVars, flightVars, partVars>>

\* Err(_) of the timeout: accepted = false with the numbers read before.
put_timeout(p) ==
    /\ put[p].pc = "wait"
    /\ lock # NoProc
    /\ put' = [put EXCEPT ![p] = Returned(@, "rejected")]
    /\ UNCHANGED <<catVars, now, ncalls, task, storeVars, dest_log, lock, mem_seq, engine, ctxVars, flightVars, partVars>>

\* The write guard lives in the Ok arm of the match and is dropped when
\* put_batches has returned, whatever it returned.
dropped_never(l, p) == l

dropped(l, p) == IF l = p THEN NoProc ELSE l

\* put_batches, first half: recover the durable sequence number of the table.
put_batches_load(p) ==
    LET t == put[p] IN
    /\ t.pc = "locked"
    /\ put' = [put EXCEPT ![p] = [t EXCEPT !.pc = "append",
                                          !.dur_seq = durable_sequence(dest_log[t.dest])]]
    /\ UNCHANGED <<catVars, now, ncalls, task, storeVars, dest_log, lock, mem_seq, engine, ctxVars, flightVars, partVars>>

\* put_batches, second half: a sequence number at or below the durable one is
\* a re-delivery and is not applied; otherwise the batch becomes a new commit
\* and both sequence numbers advance. The lock guard is dropped on return.
put_batches_append(p) ==
    LET t == put[p] IN
    /\ t.pc = "append"
    /\ IF t.seq <= t.dur_seq
       THEN /\ put' = [put EXCEPT ![p] = Returned(t, "skipped")]
            /\ UNCHANGED <<dest_log, mem_seq>>
       ELSE /\ dest_log' = [dest_log EXCEPT ![t.dest] =
                   Append(@, [seq |-> t.seq, rows |-> t.rows, by |-> p, call |-> t.id,
                              nonempty |-> (t.rows > 0),
                              locked |-> (lock = p)])]
            /\ mem_seq' = [mem_seq EXCEPT ![t.dest] = t.seq]
            /\ put' = [put EXCEPT ![p] =
                   Returned([t EXCEPT !.dur_seq = t.seq, !.mem_seq = t.seq], "committed")]
    /\ lock' = dropped(lock, p)
    /\ UNCHANGED <<catVars, now, ncalls, task, storeVars, engine, ctxVars, flightVars, partVars>>

\* put_batches returns Err: nothing is appended, the lock guard is dropped.
put_batches_error(p) ==
    /\ put[p].pc \in {"locked", "append"}
    /\ put' = [put EXCEPT ![p] = Returned(@, "append_error")]
    /\ lock' = dropped(lock, p)
    /\ UNCHANGED <<catVars, now, ncalls, task, storeVars, dest_log, mem_seq, engine, ctxVars, flightVars, partVars>>

\* Time passes for the calls that wait for the lock. The write lock is asked
\* for under a timeout of PutTimeout seconds, so a call cannot wait for it any
\* longer; the read lock is awaited without one.
PutTimeout == 3

blocked(p) == lock # NoProc /\ lock # p /\ put[p].pc \in {"read", "wait"}

put_tick ==
    /\ \E p \in Procs : blocked(p)
    /\ \A p \in Procs : blocked(p) =>
          put[p].waited < (IF put[p].pc = "wait" THEN PutTimeout ELSE MaxWait)
    /\ put' = [p \in Procs |-> IF blocked(p) THEN [put[p] EXCEPT !.waited = @ + 1] ELSE put[p]]
    /\ UNCHANGED <<catVars, now, ncalls, task, storeVars, dest_log, lock, mem_seq, engine, ctxVars, flightVars, partVars>>

\* ------------------------------------------------ planning on this instance
\* The queries planned concurrently on one context. They share self.inner, whose
\* catalog list holds the one catalog registered under the database name.
Queries == {1, 2}
BadTimestamp == -1

\* name('version'): kind "ts" carries a timestamp, kind "vid" a version id.
Reference(name, kind, arg) == [name |-> name, kind |-> kind, arg |-> arg]

QIdle == [pc |-> "idle", refs |-> <<>>, i |-> 0, loaded |-> {}, covers |-> {}, base |-> {},
          plan |-> <<>>, res |-> "none"]

InitEngine ==
    engine = [catalog |-> [tables |-> {}, names |-> {}, covers |-> {}],
              query |-> [q \in Queries |-> QIdle]]

Planning(q) == engine.query[q].pc \notin {"idle", "done"}

\* create_logical_plan_from_statement is entered; base remembers what the
\* catalog store holds at that moment.
plan_start(q, refs) ==
    /\ engine.query[q].pc = "idle"
    /\ engine' = [engine EXCEPT !.query[q] =
                     [QIdle EXCEPT !.pc = "load", !.refs = refs, !.base = loaded_tables]]
    /\ UNCHANGED <<catVars, now, ncalls, task, storeVars, putVars, ctxVars, flightVars, partVars>>

\* reload_schema: table_catalog.load_database(database_id).await
load_database(q) ==
    /\ engine.query[q].pc = "load"
    /\ engine' = [engine EXCEPT !.query[q] =
                     [@ EXCEPT !.pc = "register", !.loaded = loaded_tables,
                               !.covers = {r \in Queries : Planning(r)}]]
    /\ UNCHANGED <<catVars, now, ncalls, task, storeVars, putVars, ctxVars, flightVars, partVars>>

\* inner.register_catalog(database, Arc::new(loaded)): the catalog registered
\* before, with the names added to its schema provider, is replaced.
register_catalog(catalog, loaded, covers) ==
    [tables |-> loaded, names |-> {}, covers |-> covers]

reload_schema(q) ==
    LET t == engine.query[q] IN
    /\ t.pc = "register"
    /\ engine' = [engine EXCEPT
          !.catalog = register_catalog(@, t.loaded, t.covers),
          !.query[q] = [t EXCEPT !.pc = IF t.refs = <<>> THEN "plan" ELSE "triage",
                                 !.loaded = {}, !.covers = {}]]
    /\ UNCHANGED <<catVars, now, ncalls, task, storeVars, putVars, ctxVars, flightVars, partVars>>

\* An error returned through `?`: the function returns it and no plan.
propagate_skipped(t) ==
    [t EXCEPT !.i = @ + 1, !.pc = IF t.i + 1 > Len(t.refs) THEN "plan" ELSE "version"]

propagate(t) == [t EXCEPT !.pc = "done", !.res = "error", !.plan = <<>>, !.i = 0]

\* triage_version_ids: every version id of the query must be a version of the
\* table it qualifies.
version_id_exists(r) ==
    \E v \in table_version, x \in table :
        v.id = r.arg /\ v.table_id = x.id /\ x.name = r.name

triage_version_ids(q) ==
    LET t == engine.query[q] IN
    /\ t.pc = "triage"
    /\ engine' = [engine EXCEPT !.query[q] =
          IF \E k \in 1..Len(t.refs) : t.refs[k].kind = "vid" /\ ~version_id_exists(t.refs[k])
          THEN propagate(t)
          ELSE [t EXCEPT !.pc = "version", !.i = 1]]
    /\ UNCHANGED <<catVars, now, ncalls, task, storeVars, putVars, ctxVars, flightVars, partVars>>

\* get_table_uuid resolves the table through self.inner, that is, in the
\* catalog registered at that moment.
get_table_uuid(catalog, name) ==
    {x.uuid : x \in {y \in catalog.tables :
                        y.name = name /\ y.collection_id \in collection_id_by_name(DEFAULT_SCHEMA)}}

\* session_ctx was built from a copy of inner's state; the copy shares inner's
\* catalog list, so table_exist and register_table act on the catalog that is
\* registered when they run.
register_table(names, r, q) ==
    IF \E n \in names : n.name = r.name /\ n.kind = r.kind /\ n.arg = r.arg
    THEN names
    ELSE names \cup {[name |-> r.name, kind |-> r.kind, arg |-> r.arg, by |-> q]}

\* One turn of the loop over the version-qualified references.
time_travel_table(q) ==
    LET t == engine.query[q]
        r == t.refs[t.i]
        uuids == get_table_uuid(engine.catalog, r.name)
        failed == r.kind = "ts" /\ (uuids = {} \/ r.arg = BadTimestamp)
    IN
    /\ t.pc = "version"
    /\ engine' = IF failed
          THEN [engine EXCEPT !.query[q] = propagate(t)]
          ELSE [engine EXCEPT
                  !.catalog.names = register_table(@, r, q),
                  !.query[q] = [t EXCEPT !.plan = Append(@, r), !.i = @ + 1,
                                         !.pc = IF t.i + 1 > Len(t.refs) THEN "plan"
                                                ELSE "version"]]
    /\ UNCHANGED <<catVars, now, ncalls, task, storeVars, putVars, ctxVars, flightVars, partVars>>

\* statement_to_plan resolves every name of the rewritten query in the catalog
\* registered at that moment.
statement_to_plan(q) ==
    LET t == engine.query[q]
        registered == {<<n.name, n.kind, n.arg>> : n \in engine.catalog.names}
        needed == {<<t.plan[k].name, t.plan[k].kind, t.plan[k].arg>> : k \in 1..Len(t.plan)}
    IN
    /\ t.pc = "plan"
    /\ engine' = [engine EXCEPT !.query[q] =
          IF needed \subseteq registered
          THEN [t EXCEPT !.pc = "done", !.res = "planned"]
          ELSE [t EXCEPT !.pc = "done", !.res = "error", !.plan = <<>>, !.i = 0]]
    /\ UNCHANGED <<catVars, now, ncalls, task, storeVars, putVars, ctxVars, flightVars, partVars>>

\* ------------------------------------------------------- catalog statements
DbNames == {"default", "d2"}
NewSchemaNames == {"s2", "s3"}

\* INSERT INTO "collection" (database_id, name) VALUES ($1, $2) RETURNING (id)
\* under UNIQUE (database_id, name) and the foreign key to "database".
create_collection_error(database_id, collection_name) ==
    IF \E c \in collection : c.database_id = database_id /\ c.name = collection_name
    THEN "UniqueViolation"
    ELSE IF ~(\E d \in database : d.id = database_id) THEN "FKViolation"
    ELSE "none"

create_collection(database_id, collection_name) ==
    collection \cup {[id |-> ids.collection + 1, database_id |-> database_id,
                      name |-> collection_name]}

\* CREATE SCHEMA [IF NOT EXISTS] name: create_collection(self.database_id, name).
create_schema(p, schema_name, if_not_exists) ==
    LET e == create_collection_error(self_database_id, schema_name) IN
    /\ Begin(p)
    /\ IF e # "none"
       THEN /\ reply' = Replied(p, "create_schema", interpret_error(e), NoId)
            /\ UNCHANGED <<collection, ids>>
       ELSE /\ collection' = create_collection(self_database_id, schema_name)
            /\ ids' = [ids EXCEPT !.collection = @ + 1]
            /\ reply' = Replied(p, "create_schema", "ok", ids.collection + 1)
    /\ UNCHANGED <<database, table, table_version, table_column, dropped_table, function, now,
                   task, storeVars, putVars, engine, all_database_ids, udfs, http, flightVars, partVars>>

\* SELECT id FROM database WHERE name = $1
get_database_id_by_name(database_name) ==
    {d.id : d \in {x \in database : x.name = database_name}}

\* HashMap::insert under all_database_ids.write()
map_insert_lost(map, name, id) == map

map_insert(map, name, id) == {e \in map : e.name # name} \cup {[name |-> name, id |-> id]}

\* CREATE DATABASE [IF NOT EXISTS] name: an existing name ends the statement.
create_database_lookup(p, catalog_name, if_not_exists) ==
    /\ Begin(p)
    /\ IF get_database_id_by_name(catalog_name) # {}
       THEN /\ reply' = Replied(p, "create_database",
                                IF if_not_exists THEN "ok" ELSE "PlanError", NoId)
            /\ UNCHANGED task
       ELSE /\ task' = [task EXCEPT ![p] =
                  [Idle EXCEPT !.stmt = "create_database", !.pc = "database",
                               !.name = catalog_name]]
            /\ UNCHANGED reply
    /\ UNCHANGED <<catVars, now, storeVars, putVars, engine, all_database_ids, udfs, http, flightVars, partVars>>

\* INSERT INTO database (name) VALUES ($1) RETURNING (id), under UNIQUE (name)
create_database_error(database_name) ==
    IF \E d \in database : d.name = database_name THEN "UniqueViolation" ELSE "none"

create_database(p) ==
    LET t == task[p]
        e == create_database_error(t.name)
    IN
    /\ t.stmt = "create_database" /\ t.pc = "database"
    /\ IF e # "none"
       THEN /\ reply' = Replied(p, "create_database", interpret_error(e), NoId)
            /\ task' = [task EXCEPT ![p] = Idle]
            /\ UNCHANGED <<database, ids>>
       ELSE /\ database' = database \cup {[id |-> ids.database + 1, name |-> t.name]}
            /\ ids' = [ids EXCEPT !.database = @ + 1]
            /\ task' = [task EXCEPT ![p] = [t EXCEPT !.pc = "schema", !.db = ids.database + 1]]
            /\ UNCHANGED reply
    /\ UNCHANGED <<collection, table, table_version, table_column, dropped_table, function, now,
                   ncalls, storeVars, putVars, engine, all_database_ids, udfs, http, flightVars, partVars>>

\* create_collection(database_id, DEFAULT_SCHEMA); then the map is updated and
\* the statement returns.
create_database_default_schema(p) ==
    LET t == task[p]
        e == create_collection_error(t.db, DEFAULT_SCHEMA)
    IN
    /\ t.stmt = "create_database" /\ t.pc = "schema"
    /\ IF e # "none"
       THEN /\ reply' = Replied(p, "create_database", interpret_error(e), NoId)
            /\ UNCHANGED <<collection, ids, all_database_ids>>
       ELSE /\ collection' = create_collection(t.db, DEFAULT_SCHEMA)
            /\ ids' = [ids EXCEPT !.collection = @ + 1]
            /\ all_database_ids' = map_insert(all_database_ids, t.name, t.db)
            /\ reply' = Replied(p, "create_database", "ok", t.db)
    /\ task' = [task EXCEPT ![p] = Idle]
    /\ UNCHANGED <<database, table, table_version, table_column, dropped_table, function, now,
                   ncalls, storeVars, putVars, engine, udfs, http, flightVars, partVars>>

\* scope_to_database(name): the id is read from the map, the catalog is not asked.
scope_to_database(p, name) ==
    LET found == {e \in all_database_ids : e.name = name} IN
    /\ task[p] = Idle
    /\ reply' = IF found = {} THEN Replied(p, "scope_to_database", "PlanError", NoId)
                ELSE Replied(p, "scope_to_database", "ok", (CHOOSE e \in found : TRUE).id)
    /\ UNCHANGED <<catVars, now, ncalls, task, storeVars, putVars, engine, all_database_ids,
                   udfs, http, flightVars, partVars>>

\* CREATE FUNCTION name AS '{..., "data": data}'. The payloads: a module in
\* base64, a text that is not base64, and the empty text.
FunctionNames == {"f", "g"}
Payloads == {"AGFzbQ==", "?", ""}

\* STANDARD.decode(&details.data): <<>> stands for the decoding error.
decode(data) ==
    IF data = "?" THEN <<>> ELSE IF data = "" THEN <<"">> ELSE <<"module">>

\* create_udf_from_wasm: bytes that are no WebAssembly module cannot be loaded
\* ("Internal error: Error initializing WASM + MessagePack UDF ...").
create_udf_from_wasm(function_code) ==
    IF function_code = "module" THEN "ok" ELSE "InternalError"

\* register_function: decode, instantiate, inner.register_udf.
register_function_error(data) ==
    IF decode(data) = <<>> THEN "ExecutionError" ELSE create_udf_from_wasm(decode(data)[1])

register_udf(registry, name) == registry \cup {name}

create_function_register(p, name, data) ==
    LET e == register_function_error(data) IN
    /\ Begin(p)
    /\ IF e # "ok"
       THEN /\ reply' = Replied(p, "create_function", e, NoId)
            /\ UNCHANGED <<udfs, task>>
       ELSE /\ udfs' = register_udf(udfs, name)
            /\ task' = [task EXCEPT ![p] =
                  [Idle EXCEPT !.stmt = "create_function", !.pc = "persist", !.name = name]]
            /\ UNCHANGED reply
    /\ UNCHANGED <<catVars, now, storeVars, putVars, engine, all_database_ids, http, flightVars, partVars>>

\* INSERT INTO "function" (database_id, name, ...) VALUES (...) RETURNING (id),
\* under UNIQUE (database_id, name)
create_function_error(database_id, function_name) ==
    IF \E f \in function : f.database_id = database_id /\ f.name = function_name
    THEN "UniqueViolation" ELSE "none"

create_function(p) ==
    LET t == task[p]
        e == create_function_error(self_database_id, t.name)
    IN
    /\ t.stmt = "create_function" /\ t.pc = "persist"
    /\ IF e # "none"
       THEN /\ reply' = Replied(p, "create_function", interpret_error(e), NoId)
            /\ UNCHANGED <<function, ids>>
       ELSE /\ function' = function \cup {[id |-> ids.function + 1,
                                            database_id |-> self_database_id, name |-> t.name]}
            /\ ids' = [ids EXCEPT !.function = @ + 1]
            /\ reply' = Replied(p, "create_function", "ok", ids.function + 1)
    /\ task' = [task EXCEPT ![p] = Idle]
    /\ UNCHANGED <<database, collection, table, table_version, table_column, dropped_table, now,
                   ncalls, storeVars, putVars, engine, all_database_ids, udfs, http, flightVars, partVars>>

\* A query that calls a function: reload_schema registers the functions of the
\* catalog, then the name is looked up in the registry.
get_all_functions_in_database(database_id) ==
    {f.name : f \in {g \in function : g.database_id = database_id}}

call_function(p, name) ==
    LET registry == udfs \cup get_all_functions_in_database(self_database_id) IN
    /\ task[p] = Idle
    /\ udfs' = registry
    /\ reply' = Replied(p, "call", IF name \in registry THEN "ok" ELSE "PlanError", NoId)
    /\ UNCHANGED <<catVars, now, ncalls, task, storeVars, putVars, engine, all_database_ids,
                   http, flightVars, partVars>>

\* ---------------------------------------------------------- drop statements
\* ON DELETE CASCADE from database to collection and function, and from
\* collection to "table".
CascadeCollections(dbs, colls) == {c \in colls : \E d \in dbs : d.id = c.database_id}
CascadeFunctions(dbs, fns) == {f \in fns : \E d \in dbs : d.id = f.database_id}
CascadeTables(colls, tbls) == {t \in tbls : \E c \in colls : c.id = t.collection_id}

\* DROP TABLE name: a legacy table is taken from the loaded catalog, any other
\* table is looked up by name; drop_table(table_id) follows.
stmt_drop_table(p, schema_name, table_name) ==
    LET legacy == {x.id : x \in {y \in table_provider(schema_name, table_name) : y.legacy}}
        found == IF legacy # {} THEN legacy ELSE get_table_id_by_name(schema_name, table_name)
    IN
    /\ Begin(p)
    /\ IF found = {}
       THEN /\ reply' = Replied(p, "drop_table", "ExecutionError", NoId)
            /\ UNCHANGED task
       ELSE /\ task' = [task EXCEPT ![p] =
                  [Idle EXCEPT !.stmt = "drop_table", !.call = "drop_table", !.cpc = 1,
                               !.tid = CHOOSE id \in found : TRUE]]
            /\ UNCHANGED reply
    /\ UNCHANGED <<catVars, now, storeVars, putVars, engine, all_database_ids, udfs, http, flightVars, partVars>>

\* DROP SCHEMA name: drop_collection(collection_id) when the schema exists.
stmt_drop_schema(p, schema_name) ==
    LET found == collection_id_by_name(schema_name) IN
    /\ Begin(p)
    /\ IF found = {}
       THEN /\ reply' = Replied(p, "drop_schema", "ok", NoId)
            /\ UNCHANGED task
       ELSE /\ task' = [task EXCEPT ![p] =
                  [Idle EXCEPT !.stmt = "drop_schema", !.call = "drop_collection", !.cpc = 1,
                               !.coll = CHOOSE id \in found : TRUE]]
            /\ UNCHANGED reply
    /\ UNCHANGED <<catVars, now, storeVars, putVars, engine, all_database_ids, udfs, http, flightVars, partVars>>

\* drop_collection: insert_dropped_tables(None, Some(collection_id), None) ...
drop_collection_insert(p) ==
    LET t == task[p] IN
    /\ t.call = "drop_collection" /\ t.cpc = 1
    /\ dropped_table' = dropped_table \cup
          tables_to_drop({x \in table : x.collection_id = t.coll})
    /\ task' = [task EXCEPT ![p] = [t EXCEPT !.cpc = 2]]
    /\ UNCHANGED <<database, collection, table, table_version, table_column, ids, function, now,
                   ncalls, storeVars, putVars, engine, ctxVars, flightVars, partVars>>

\* ... then DELETE FROM collection WHERE id = $1 RETURNING id
drop_collection_delete(p) ==
    LET t == task[p] IN
    /\ t.call = "drop_collection" /\ t.cpc = 2
    /\ collection' = {c \in collection : c.id # t.coll}
    /\ table' = CascadeTables(collection', table)
    /\ table_version' = CascadeVersions(table', table_version)
    /\ table_column' = CascadeColumns(table_version', table_column)
    /\ table_partition' = CascadePartitions(table_version', table_partition)
    /\ reply' = Replied(p, "drop_collection",
                        IF t.coll \in CollectionIds THEN "ok"
                        ELSE interpret_error("RowNotFound"), NoId)
    /\ task' = [task EXCEPT ![p] = Idle]
    /\ UNCHANGED <<database, dropped_table, ids, function, now, ncalls, storeVars, putVars,
                   engine, all_database_ids, udfs, http, flightVars, physical_partition, internal_object_store, vacuum>>

\* drop_database(database_id), called on the repository.
drop_database_begin(p, database_id) ==
    /\ Begin(p)
    /\ task' = [task EXCEPT ![p] = [Idle EXCEPT !.call = "drop_database", !.cpc = 1, !.db = database_id]]
    /\ UNCHANGED <<catVars, now, storeVars, putVars, engine, ctxVars, flightVars, partVars>>

drop_database_insert(p) ==
    LET t == task[p] IN
    /\ t.call = "drop_database" /\ t.cpc = 1
    /\ dropped_table' = dropped_table \cup
          tables_to_drop({x \in table : \E c \in collection :
                              c.id = x.collection_id /\ c.database_id = t.db})
    /\ task' = [task EXCEPT ![p] = [t EXCEPT !.cpc = 2]]
    /\ UNCHANGED <<database, collection, table, table_version, table_column, ids, function, now,
                   ncalls, storeVars, putVars, engine, ctxVars, flightVars, partVars>>

drop_database_delete(p) ==
    LET t == task[p] IN
    /\ t.call = "drop_database" /\ t.cpc = 2
    /\ database' = {d \in database : d.id # t.db}
    /\ collection' = CascadeCollections(database', collection)
    /\ function' = CascadeFunctions(database', function)
    /\ table' = CascadeTables(collection', table)
    /\ table_version' = CascadeVersions(table', table_version)
    /\ table_column' = CascadeColumns(table_version', table_column)
    /\ table_partition' = CascadePartitions(table_version', table_partition)
    /\ reply' = Replied(p, "drop_database",
                        IF \E d \in database : d.id = t.db THEN "ok"
                        ELSE interpret_error("RowNotFound"), NoId)
    /\ task' = [task EXCEPT ![p] = Idle]
    /\ UNCHANGED <<dropped_table, ids, now, ncalls, storeVars, putVars, engine,
                   all_database_ids, udfs, http, flightVars, physical_partition, internal_object_store, vacuum>>

\* DELETE FROM dropped_table WHERE uuid = $1 RETURNING uuid
delete_dropped_table(p, uuid) ==
    /\ Begin(p)
    /\ dropped_table' = {d \in dropped_table : d.uuid # uuid}
    /\ reply' = Replied(p, "delete_dropped_table",
                        IF \E d \in dropped_table : d.uuid = uuid THEN "ok"
                        ELSE interpret_error("RowNotFound"), NoId)
    /\ UNCHANGED <<database, collection, table, table_version, table_column, ids, function, now,
                   task, storeVars, putVars, engine, all_database_ids, udfs, http, flightVars, partVars>>

\* ------------------------------------------------------------------ errors
\* Any statement sent to the catalog store can fail (.map_err(interpret_error)?):
\* the call returns Err at the point it has reached and the caller gives up.
repo_error(p) ==
    /\ task[p].call # "none"
    /\ task' = [task EXCEPT ![p] = Idle]
    /\ UNCHANGED <<database, collection, table, table_version, table_column, dropped_table, ids, now, ncalls, storeVars, putVars, engine, function, ctxVars, flightVars, partVars>>

Tick ==
    /\ now < MaxClock
    /\ now' = now + 1
    /\ UNCHANGED <<database, collection, table, table_version, table_column, dropped_table, ids, ncalls, task, storeVars, putVars, engine, function, ctxVars, flightVars, partVars>>

\* ------------------------------------------------------------------- specs
InitCatalog ==
    /\ database = {[id |-> 1, name |-> "default"]}
    /\ collection = {[id |-> 1, database_id |-> 1, name |-> DEFAULT_SCHEMA],
                     [id |-> 2, database_id |-> 1, name |-> "s2"]}
    /\ table = {}
    /\ table_version = {}
    /\ table_column = {}
    /\ dropped_table = {}
    /\ ids = [table |-> 0, version |-> 0, database |-> 1, collection |-> 2, function |-> 0]
    /\ function = {}
    /\ now = 0
    /\ ncalls = 0

\* No table in the object store, no ingestion in flight.
InitStore ==
    /\ delta = [u \in Uuids |-> <<>>]
    /\ objects = <<>>
    /\ snap = [u \in Uuids |-> <<>>]
    /\ ref = [u \in Uuids |-> NoRows]

InitPut ==
    /\ dest_log = [d \in Dests |-> <<>>]
    /\ lock = NoProc
    /\ mem_seq = [d \in Dests |-> NoSeq]
    /\ put = [p \in Procs |-> PutIdle]

\* The context built at startup: the map holds the databases of the catalog, no
\* function is registered, nothing has been answered.
NoReply == [stmt |-> "none", res |-> "none", id |-> NoId]
\* What the client keeps of the last answer that carried an ETag: the query, the
\* header, and the version ids the scanned tables had when the answer was sent.
NoCache == [query |-> "none", etag |-> <<>>, versions |-> <<>>]
HttpIdle == [pc |-> "idle", query |-> "none", if_none_match |-> <<>>, etag |-> <<>>,
             status |-> "none", cached |-> NoCache]

InitContext ==
    /\ all_database_ids = {[name |-> d.name, id |-> d.id] : d \in database}
    /\ udfs = {}
    /\ reply = [p \in Procs |-> NoReply]
    /\ http = [p \in Procs |-> HttpIdle]

\* SeafowlFlightHandler::new: results starts empty; no query has been named yet
\* and no client has a call in flight.
QueryIds == 1..MaxQueries
NoStream == [state |-> "unused", handed |-> 0]
FlightIdle == [op |-> "none", pc |-> "idle", query_id |-> NoId, res |-> "none"]

InitFlight ==
    /\ results = {}
    /\ streams = [q \in QueryIds |-> NoStream]
    /\ flight = [p \in Procs |-> FlightIdle]

\* No legacy partition is recorded and no VACUUM is in flight.
VacuumIdle == [pc |-> "idle", table_id |-> NoTable, orphans |-> {}, deleted |-> {}]

InitPartitions ==
    /\ physical_partition = {}
    /\ table_partition = {}
    /\ internal_object_store = {}
    /\ vacuum = [p \in Procs |-> VacuumIdle]

InitCat ==
    /\ InitCatalog
    /\ InitStore
    /\ InitPut
    /\ InitEngine
    /\ InitContext
    /\ InitPartitions
    /\ InitFlight
    /\ task = [p \in Procs |-> Idle]

\* A session that calls the repository directly.
Calling(c) == [Idle EXCEPT !.call = c, !.cpc = 1]

UsedUuids == {t.uuid : t \in table} \cup {d.uuid : d \in dropped_table}
FreshUuid == IF UsedUuids = {} THEN 1
             ELSE 1 + (CHOOSE u \in UsedUuids : \A w \in UsedUuids : w <= u)

begin_call(p) ==
    /\ task[p] = Idle
    /\ ncalls < MaxCalls
    /\ ncalls' = ncalls + 1
    /\ \E c \in {"create_table", "create_new_table_version", "drop_table"} :
          task' = [task EXCEPT ![p] = Calling(c)]
    /\ UNCHANGED <<database, collection, table, table_version, table_column, dropped_table, ids, now, storeVars, putVars, engine, function, ctxVars, flightVars, partVars>>

NextCat ==
    \/ \E p \in Procs : begin_call(p)
    \/ \E p \in Procs, coll \in CollectionIds, name \in Names, schema \in Schemas :
          create_table_insert_table(p, coll, name, schema, FreshUuid)
    \/ \E p \in Procs : create_table_insert_version(p)
    \/ \E p \in Procs : create_table_insert_columns(p)
    \/ \E p \in Procs, uuid \in 1..MaxTables, version \in 1..MaxDeltaVersion :
          create_new_table_version_select(p, uuid, version)
    \/ \E p \in Procs : create_new_table_version_insert(p)
    \/ \E p \in Procs : create_new_table_version_columns(p)
    \/ \E p \in Procs, table_id \in {NoTable} \cup TableIds : delete_old_table_versions(p, table_id)
    \/ \E p \in Procs, table_id \in 1..MaxTables, name \in Names, coll \in {NoColl} \cup CollectionIds :
          move_table(p, table_id, name, coll)
    \/ \E p \in Procs, table_id \in 1..MaxTables : insert_dropped_tables(p, table_id)
    \/ \E p \in Procs : drop_table_delete(p)
    \/ \E p \in Procs : repo_error(p)
    \/ Tick

SpecCat == InitCat /\ [][NextCat]_vars
\* ================================================================= claims
\* ------------------------------------------------------- concurrent sessions
OneRow == [v \in Vals |-> IF v = 1 THEN 1 ELSE 0]

Statements ==
    \/ \E p \in Procs : create_delta_table_lookup(p, "create_table", DEFAULT_SCHEMA, "t", {"a"}, NoRows)
    \/ \E p \in Procs : create_delta_table_lookup(p, "ctas", DEFAULT_SCHEMA, "t", {"a"}, OneRow)
    \/ \E p \in Procs : create_delta_table_storage(p)
    \/ \E p \in Procs : task[p].stmt # "none" /\
          create_table_insert_table(p, task[p].coll, task[p].name, task[p].schema, task[p].uuid)
    \/ \E p \in Procs : create_table_insert_version(p)
    \/ \E p \in Procs : create_table_insert_columns(p)
    \/ \E p \in Procs : ctas_reload_schema(p)
    \/ \E p \in Procs : stmt_insert(p, DEFAULT_SCHEMA, "t", OneRow)
    \/ \E p \in Procs : plan_to_delta_table_write(p)
    \/ \E p \in Procs : stmt_update(p, DEFAULT_SCHEMA, "t", <<>>, 2)
    \/ \E p \in Procs : stmt_delete(p, DEFAULT_SCHEMA, "t", <<>>)
    \/ \E p \in Procs : commit_actions(p)
    \/ \E p \in Procs : task[p].stmt # "none" /\
          create_new_table_version_select(p, task[p].uuid, task[p].ver)
    \/ \E p \in Procs : create_new_table_version_insert(p)
    \/ \E p \in Procs : create_new_table_version_columns(p)

Next ==
    \/ Statements
    \/ \E p \in Procs : stmt_error(p)

Spec == InitCat /\ [][Next]_vars

\* The same sessions when no call fails and no process stops.
SpecRace == InitCat /\ [][Statements]_vars

\* ------------------------------------------- one writer, one reader, with data
Writer == 1
Reader == 2
SchemaNames == {DEFAULT_SCHEMA, "s2"}
RowSets == {[v \in Vals |-> IF v \in {NULL, 1} THEN 1 ELSE 0],
            [v \in Vals |-> IF v = 2 THEN 1 ELSE 0]}
Selections == {<<>>, <<1>>}
Timestamps == 0..MaxClock

NextData ==
    \/ \E name \in Names :
          create_delta_table_lookup(Writer, "create_table", DEFAULT_SCHEMA, name, {"a"}, NoRows)
    \/ \E name \in Names :
          create_delta_table_lookup(Writer, "create_table", DEFAULT_SCHEMA, name, {}, NoRows)
    \/ stmt_unplannable(Writer)
    \/ create_delta_table_storage(Writer)
    \/ create_table_insert_table(Writer, task[Writer].coll, task[Writer].name,
                                 task[Writer].schema, task[Writer].uuid)
    \/ create_table_insert_version(Writer)
    \/ create_table_insert_columns(Writer)
    \/ \E name \in Names, rows \in RowSets : stmt_insert(Writer, DEFAULT_SCHEMA, name, rows)
    \/ \E name \in Names, source \in Names :
          stmt_insert_select(Writer, DEFAULT_SCHEMA, name, source)
    \/ plan_to_delta_table_write(Writer)
    \/ \E name \in Names, sel \in Selections : stmt_update(Writer, DEFAULT_SCHEMA, name, sel, 2)
    \/ \E name \in Names, sel \in Selections : stmt_delete(Writer, DEFAULT_SCHEMA, name, sel)
    \/ commit_actions(Writer)
    \/ create_new_table_version_select(Writer, task[Writer].uuid, task[Writer].ver)
    \/ create_new_table_version_insert(Writer)
    \/ create_new_table_version_columns(Writer)
    \/ \E old_schema \in SchemaNames, old_name \in Names,
          new_schema \in SchemaNames, new_name \in Names :
          stmt_rename(Writer, old_schema, old_name, new_schema, new_name)
    \/ \E schema_name \in SchemaNames, name \in Names, at \in {<<>>} \cup {<<ts>> : ts \in Timestamps} :
          stmt_select(Reader, schema_name, name, at)
    \/ execute_stream(Reader)
    \/ fetch_stream(Reader)
    \/ Tick

SpecData == InitCat /\ [][NextData]_vars

\* ----------------------------------------------------------------- ingestion
NextPut ==
    \/ \E p \in Procs, dest \in Dests, sequence_number \in 1..MaxSeq, num_rows \in 0..1 :
          put_begin(p, dest, sequence_number, num_rows)
    \/ \E p \in Procs : put_create(p)
    \/ \E p \in Procs : put_read_mem_seq(p)
    \/ \E p \in Procs : put_write_lock(p)
    \/ \E p \in Procs : put_timeout(p)
    \/ \E p \in Procs : put_batches_load(p)
    \/ \E p \in Procs : put_batches_append(p)
    \/ \E p \in Procs : put_batches_error(p)

SpecPut == InitCat /\ [][NextPut]_vars

\* The same calls with the passing of time.
NextPutTime ==
    \/ \E p \in Procs, dest \in Dests, sequence_number \in 1..MaxSeq, num_rows \in 0..1 :
          put_begin(p, dest, sequence_number, num_rows)
    \/ \E p \in Procs : put_create(p)
    \/ \E p \in Procs : put_read_mem_seq(p)
    \/ \E p \in Procs : put_write_lock(p)
    \/ \E p \in Procs : put_timeout(p)
    \/ \E p \in Procs : put_batches_load(p)
    \/ \E p \in Procs : put_batches_append(p)
    \/ \E p \in Procs : put_batches_error(p)
    \/ put_tick

SpecPutTime == InitCat /\ [][NextPutTime]_vars

\* Queries planned on this instance while another instance, the writer, changes
\* the catalog store they share.
RefSeqs ==
    {<<>>,
     <<Reference("t", "ts", 0)>>,
     <<Reference("t", "ts", 0), Reference("u", "ts", 0)>>,
     <<Reference("t", "ts", 0), Reference("t", "ts", BadTimestamp)>>,
     <<Reference("t", "vid", 2), Reference("t", "ts", 0)>>}

\* The two queries are interchangeable: the first draws every sequence, the
\* second the ones with at most one reference.
RefSeqsOf(q) == IF q = 1 THEN RefSeqs ELSE {refs \in RefSeqs : Len(refs) <= 1}

NextTravel ==
    \/ create_delta_table_lookup(Writer, "create_table", DEFAULT_SCHEMA, "t", {"a"}, NoRows)
    \/ create_delta_table_storage(Writer)
    \/ create_table_insert_table(Writer, task[Writer].coll, task[Writer].name,
                                 task[Writer].schema, task[Writer].uuid)
    \/ create_table_insert_version(Writer)
    \/ create_table_insert_columns(Writer)
    \/ stmt_insert(Writer, DEFAULT_SCHEMA, "t", OneRow)
    \/ plan_to_delta_table_write(Writer)
    \/ create_new_table_version_select(Writer, task[Writer].uuid, task[Writer].ver)
    \/ create_new_table_version_insert(Writer)
    \/ create_new_table_version_columns(Writer)
    \/ stmt_rename(Writer, DEFAULT_SCHEMA, "t", DEFAULT_SCHEMA, "u")
    \/ \E q \in Queries : \E refs \in RefSeqsOf(q) : plan_start(q, refs)
    \/ \E q \in Queries : load_database(q)
    \/ \E q \in Queries : reload_schema(q)
    \/ \E q \in Queries : triage_version_ids(q)
    \/ \E q \in Queries : time_travel_table(q)
    \/ \E q \in Queries : statement_to_plan(q)

SpecTravel == InitCat /\ [][NextTravel]_vars

\* Sessions of one process that create tables, schemas, databases and functions.
NextDdl ==
    \/ \E p \in Procs, stmt \in {"create_table", "create_table_if_not_exists"} :
          create_delta_table_lookup(p, stmt, DEFAULT_SCHEMA, "t", {"a"}, NoRows)
    \/ \E p \in Procs : create_delta_table_storage(p)
    \/ \E p \in Procs : task[p].call = "create_table" /\
          create_table_insert_table(p, task[p].coll, task[p].name, task[p].schema, task[p].uuid)
    \/ \E p \in Procs : create_table_insert_version(p)
    \/ \E p \in Procs : create_table_insert_columns(p)
    \/ \E p \in Procs, schema_name \in NewSchemaNames, if_not_exists \in BOOLEAN :
          create_schema(p, schema_name, if_not_exists)
    \/ \E p \in Procs, catalog_name \in DbNames, if_not_exists \in BOOLEAN :
          create_database_lookup(p, catalog_name, if_not_exists)
    \/ \E p \in Procs : create_database(p)
    \/ \E p \in Procs : create_database_default_schema(p)
    \/ \E p \in Procs, name \in DbNames : scope_to_database(p, name)
    \/ \E p \in Procs, name \in FunctionNames, data \in Payloads :
          create_function_register(p, name, data)
    \/ \E p \in Procs : create_function(p)
    \/ \E p \in Procs, name \in FunctionNames : call_function(p, name)
    \/ \E p \in Procs : stmt_error(p)

SpecDdl == InitCat /\ [][NextDdl]_vars

\* Two sessions that drop and rename, over a catalog that holds a table t with
\* its storage and a legacy table u, which has none.
LegacyUuid == MaxTables + 1

InitDrop ==
    /\ database = {[id |-> 1, name |-> "default"]}
    /\ collection = {[id |-> 1, database_id |-> 1, name |-> DEFAULT_SCHEMA],
                     [id |-> 2, database_id |-> 1, name |-> "s2"]}
    /\ table = {[id |-> 1, collection_id |-> 1, name |-> "t", uuid |-> 1, legacy |-> FALSE],
                [id |-> 2, collection_id |-> 2, name |-> "u", uuid |-> LegacyUuid,
                 legacy |-> TRUE]}
    /\ table_version = {[id |-> 1, table_id |-> 1, version |-> 0, creation_time |-> 0],
                        [id |-> 2, table_id |-> 2, version |-> 0, creation_time |-> 0]}
    /\ table_column = {[table_version_id |-> 1, name |-> "a"],
                       [table_version_id |-> 2, name |-> "a"]}
    /\ dropped_table = {}
    /\ ids = [table |-> 2, version |-> 2, database |-> 1, collection |-> 2, function |-> 0]
    /\ function = {}
    /\ now = 0
    /\ ncalls = 0
    /\ delta = [u \in Uuids |-> IF u = 1 THEN committed_log(<<>>, {}, {}, 0) ELSE <<>>]
    /\ objects = <<>>
    /\ snap = [u \in Uuids |-> IF u = 1 THEN <<NoRows>> ELSE <<>>]
    /\ ref = [u \in Uuids |-> NoRows]
    /\ InitPut
    /\ InitEngine
    /\ InitContext
    /\ InitPartitions
    /\ InitFlight
    /\ task = [p \in Procs |-> Idle]

NextDrop ==
    \/ \E p \in Procs, schema_name \in SchemaNames, name \in Names :
          stmt_drop_table(p, schema_name, name)
    \/ \E p \in Procs : task[p].stmt = "drop_table" /\ insert_dropped_tables(p, task[p].tid)
    \/ \E p \in Procs : drop_table_delete(p)
    \/ \E p \in Procs, schema_name \in SchemaNames : stmt_drop_schema(p, schema_name)
    \/ \E p \in Procs : drop_collection_insert(p)
    \/ \E p \in Procs : drop_collection_delete(p)
    \/ \E p \in Procs, database_id \in {self_database_id} : drop_database_begin(p, database_id)
    \/ \E p \in Procs : drop_database_insert(p)
    \/ \E p \in Procs : drop_database_delete(p)
    \/ \E p \in Procs, uuid \in Uuids : delete_dropped_table(p, uuid)
    \/ \E p \in Procs, old_name \in Names, new_schema \in SchemaNames \cup {"s3"},
          new_name \in Names :
          stmt_rename(p, DEFAULT_SCHEMA, old_name, new_schema, new_name)
    \/ \E p \in Procs, new_catalog \in DbNames :
          stmt_rename_database(p, DEFAULT_SCHEMA, "t", new_catalog, DEFAULT_SCHEMA, "t")
    \/ \E p \in Procs, table_id \in 1..MaxTables + 1, name \in Names,
          coll \in {NoColl} \cup CollectionIds :
          move_table(p, table_id, name, coll)
    \/ \E p \in Procs : repo_error(p)

SpecDrop == InitDrop /\ [][NextDrop]_vars

\* ---- the cached-read endpoint (GET /q/<hash>)

HttpClient == 2
HttpQueries == {"select_t", "select_u", "insert_t", "drop_t"}

\* "select_t": SELECT * FROM t        "select_u": SELECT * FROM s2.u
\* "insert_t": INSERT INTO t VALUES (1)   "drop_t": DROP TABLE t
query_schema(query) == IF query = "select_u" THEN "s2" ELSE DEFAULT_SCHEMA

query_table(query) == IF query = "select_u" THEN "u" ELSE "t"

\* Hex SHA-256 of a text: equal texts give equal digests, different texts
\* different ones.
Sha256(text) == <<"sha256", text>>

\* create_logical_plan: the root node of the plan, "error" when the table of
\* the statement does not resolve.
create_logical_plan(query) ==
    IF table_provider(query_schema(query), query_table(query)) = {} THEN "error"
    ELSE CASE query \in {"select_t", "select_u"} -> "Projection"
           [] query = "insert_t" -> "Dml"
           [] query = "drop_t" -> "DropTable"

\* is_read_only: every plan except the listed ones.
is_read_only(plan) ==
    plan \notin {"CreateExternalTable", "CreateMemoryTable", "CreateView",
                 "CreateCatalogSchema", "CreateCatalog", "DropTable", "Analyze", "Extension"}

\* The endpoint's own match: the plans answered NOT_READ_ONLY_QUERY.
not_read_only_query(plan) ==
    plan \in {"CreateExternalTable", "CreateMemoryTable", "CreateView",
              "CreateCatalogSchema", "CreateCatalog", "DropTable", "Analyze", "Extension"}

\* The plans whose arm of create_physical_plan writes to the catalog or to storage.
Mutating ==
    {"CreateCatalogSchema", "CreateCatalog", "CreateMemoryTable", "Dml", "DropTable",
     "Extension"}

\* The tables under the TableScan nodes of the plan, in the order of the visit.
table_scans(query) ==
    IF query \in {"select_t", "select_u"}
    THEN table_provider(query_schema(query), query_table(query))
    ELSE {}

\* The version id each scanned table is loaded at.
scanned_versions(query) ==
    IF table_scans(query) = {} THEN <<>>
    ELSE <<first_value(table_version, (CHOOSE x \in table_scans(query) : TRUE).id)>>

\* ETagBuilderVisitor: table_version_id of every scan whose provider is a SeafowlTable.
table_versions(query) ==
    LET seafowl == {x \in table_scans(query) : x.legacy} IN
    IF seafowl = {} THEN <<>>
    ELSE <<first_value(table_version, (CHOOSE x \in seafowl : TRUE).id)>>

\* plan_to_etag: the digest of the JSON text of the list.
plan_to_etag(query) == Sha256(table_versions(query))

\* create_physical_plan of an accepted plan: a scan of a Delta table reads the
\* version loaded now, a Dml Insert goes to plan_to_delta_table.
http_physical_plan(p, query) ==
    LET found == table_provider(query_schema(query), query_table(query))
        x == CHOOSE y \in found : TRUE
    IN
    CASE query = "insert_t" ->
           [Idle EXCEPT !.stmt = "insert", !.pc = "write", !.name = x.name, !.uuid = x.uuid,
                        !.rows = OneRow]
      [] query = "select_t" /\ ~x.legacy ->
           [Idle EXCEPT !.stmt = "select", !.pc = "planned", !.name = x.name,
                        !.uuid = x.uuid, !.ver = Version(delta[x.uuid])]
      [] OTHER -> Idle

\* cached_read_query up to the physical plan: hash check, planning, the
\* read-only check, the comparison of the ETag with If-None-Match.
cached_read_query(p, query, query_hash, if_none_match) ==
    LET plan == create_logical_plan(query)
        etag == plan_to_etag(query)
        answered(status) ==
            [http[p] EXCEPT !.pc = "idle", !.query = query, !.if_none_match = if_none_match,
                            !.etag = <<>>, !.status = status]
        refused(status) ==
            /\ http' = [http EXCEPT ![p] = answered(status)]
            /\ UNCHANGED <<task, ref>>
    IN
    /\ Begin(p)
    /\ http[p].pc = "idle"
    /\ IF query_hash # Sha256(query) THEN refused("HASH_MISMATCH")
       ELSE IF plan = "error" THEN refused("panic")
       ELSE IF not_read_only_query(plan) THEN refused("NOT_READ_ONLY_QUERY")
       ELSE IF if_none_match = <<etag>> THEN refused("NOT_MODIFIED")
       ELSE /\ http' = [http EXCEPT ![p] =
                  [answered("none") EXCEPT !.pc = "collect", !.etag = <<etag>>]]
            /\ task' = [task EXCEPT ![p] = http_physical_plan(p, query)]
            /\ ref' = IF query = "insert_t"
                      THEN [ref EXCEPT ![task'[p].uuid] = AddRows(@, OneRow)]
                      ELSE ref
    /\ UNCHANGED <<catVars, now, delta, objects, snap, putVars, engine, all_database_ids,
                   udfs, reply, flightVars, partVars>>

\* The batches are collected and sent with the ETag header.
cached_read_reply(p) ==
    /\ http[p].pc = "collect"
    /\ task[p] = Idle
    /\ http' = [http EXCEPT ![p] =
          [@ EXCEPT !.pc = "idle", !.status = "OK",
                    !.cached = [query |-> http[p].query, etag |-> http[p].etag,
                                versions |-> scanned_versions(http[p].query)]]]
    /\ UNCHANGED <<catVars, now, ncalls, task, storeVars, putVars, engine, all_database_ids,
                   udfs, reply, flightVars, partVars>>

\* The header a client sends: none, or the ETag it was given for this query.
IfNoneMatchOf(p, query) ==
    {<<>>} \cup (IF http[p].cached.query = query THEN {http[p].cached.etag} ELSE {})

\* One client of the endpoint and one session that inserts into t.
NextHttp ==
    \/ \E query \in HttpQueries, asked \in HttpQueries :
          \E if_none_match \in IfNoneMatchOf(HttpClient, query) :
             cached_read_query(HttpClient, query, Sha256(asked), if_none_match)
    \/ cached_read_reply(HttpClient)
    \/ stmt_insert(Writer, DEFAULT_SCHEMA, "t", OneRow)
    \/ \E p \in Procs : plan_to_delta_table_write(p)
    \/ \E p \in Procs : create_new_table_version_select(p, task[p].uuid, task[p].ver)
    \/ \E p \in Procs : create_new_table_version_insert(p)
    \/ \E p \in Procs : create_new_table_version_columns(p)
    \/ execute_stream(HttpClient)
    \/ fetch_stream(HttpClient)

SpecHttp == InitDrop /\ [][NextHttp]_vars

\* ---- UPDATE and DELETE on a table that holds rows
\* The state after CREATE TABLE t AS VALUES (NULL), (1): storage versions 0 and
\* 1, one file, and the two catalog versions.
NullAndOne == [v \in Vals |-> IF v \in {NULL, 1} THEN 1 ELSE 0]
OneTwo == [v \in Vals |-> IF v = 2 THEN 1 ELSE 0]
Predicates == {<<>>, <<1>>, <<2>>}

InitDml ==
    /\ database = {[id |-> 1, name |-> "default"]}
    /\ collection = {[id |-> 1, database_id |-> 1, name |-> DEFAULT_SCHEMA],
                     [id |-> 2, database_id |-> 1, name |-> "s2"]}
    /\ table = {[id |-> 1, collection_id |-> 1, name |-> "t", uuid |-> 1, legacy |-> FALSE]}
    /\ table_version = {[id |-> 1, table_id |-> 1, version |-> 0, creation_time |-> 0],
                        [id |-> 2, table_id |-> 1, version |-> 1, creation_time |-> 0]}
    /\ table_column = {[table_version_id |-> 1, name |-> "a"],
                       [table_version_id |-> 2, name |-> "a"]}
    /\ dropped_table = {}
    /\ ids = [table |-> 1, version |-> 2, database |-> 1, collection |-> 2, function |-> 0]
    /\ function = {}
    /\ now = 0
    /\ ncalls = 0
    /\ objects = written_objects(<<>>, NullAndOne, {})
    /\ delta = [u \in Uuids |->
                  IF u = 1
                  THEN committed_log(committed_log(<<>>, {}, {}, 0),
                                     written_adds(<<>>, NullAndOne, {}), {}, 0)
                  ELSE <<>>]
    /\ snap = [u \in Uuids |-> IF u = 1 THEN <<NoRows, NullAndOne>> ELSE <<>>]
    /\ ref = [u \in Uuids |-> IF u = 1 THEN NullAndOne ELSE NoRows]
    /\ InitPut
    /\ InitEngine
    /\ InitContext
    /\ InitPartitions
    /\ InitFlight
    /\ task = [p \in Procs |-> Idle]

\* Two sessions that insert, update and delete; any statement can fail.
NextDml ==
    \/ \E p \in Procs : stmt_insert(p, DEFAULT_SCHEMA, "t", OneTwo)
    \/ \E p \in Procs : plan_to_delta_table_write(p)
    \/ \E p \in Procs, sel \in Predicates : stmt_update(p, DEFAULT_SCHEMA, "t", sel, 2)
    \/ \E p \in Procs, sel \in Predicates : stmt_delete(p, DEFAULT_SCHEMA, "t", sel)
    \/ \E p \in Procs : commit_actions(p)
    \/ \E p \in Procs : task[p].stmt # "none" /\
          create_new_table_version_select(p, task[p].uuid, task[p].ver)
    \/ \E p \in Procs : create_new_table_version_insert(p)
    \/ \E p \in Procs : create_new_table_version_columns(p)
    \/ \E p \in Procs : stmt_error(p)

SpecDml == InitDml /\ [][NextDml]_vars

\* ------------------------------------------- get_all_columns_in_database
\* table_version_ids is an Option: <<>> is None, <<S>> is Some(S).
\* WITH desired_table_versions AS (SELECT table_id, id FROM table_version ...): the
\* clause WHERE table_version.id IN (...) is pushed only when the list is not
\* empty; without a list the query is latest_table_versions.
desired_table_versions(table_version_ids) ==
    IF table_version_ids = <<>>
    THEN {v \in table_version : v.id = first_value(table_version, v.table_id)}
    ELSE IF table_version_ids[1] # {}
         THEN {v \in table_version : v.id \in table_version_ids[1]}
         ELSE table_version

\* FROM database INNER JOIN collection INNER JOIN "table" INNER JOIN
\* desired_table_versions INNER JOIN table_column WHERE database.id = $1
get_all_columns_in_database(database_id, table_version_ids) ==
    LET joined == {x \in database \X collection \X table
                           \X desired_table_versions(table_version_ids) \X table_column :
                      /\ x[1].id = x[2].database_id
                      /\ x[2].id = x[3].collection_id
                      /\ x[3].id = x[4].table_id
                      /\ x[5].table_version_id = x[4].id
                      /\ x[1].id = database_id}
    IN {[database_name |-> x[1].name, collection_name |-> x[2].name,
         table_name |-> x[3].name, table_id |-> x[3].id, table_uuid |-> x[3].uuid,
         table_legacy |-> x[3].legacy, table_version_id |-> x[4].id,
         column_name |-> x[5].name] : x \in joined}

\* ------------------------------------------------ Flight: result streams
\* self.results.insert(query_id, Mutex::new(batch_stream))
results_insert(map, query_id) == map \cup {query_id}

\* self.results.remove(query_id): the entry leaves the map with the lookup.
results_kept(map, query_id) == map

results_remove(map, query_id) == map \ {query_id}

\* The caller names every query by an id of its own, here the next unused one.
fresh_query_id ==
    CHOOSE q \in QueryIds : /\ streams[q].state = "unused"
                            /\ \A r \in QueryIds : streams[r].state = "unused" => q <= r

\* query_to_stream up to ctx.plan_query(query).await: an error is returned with ?
\* and nothing is stored.
query_to_stream(p, planned) ==
    /\ flight[p].pc = "idle"
    /\ \E q \in QueryIds : streams[q].state = "unused"
    /\ flight' = [flight EXCEPT ![p] =
          IF planned
          THEN [op |-> "query_to_stream", pc |-> "execute", query_id |-> fresh_query_id,
                res |-> "none"]
          ELSE [op |-> "query_to_stream", pc |-> "idle", query_id |-> fresh_query_id,
                res |-> "error"]]
    /\ streams' = [streams EXCEPT ![fresh_query_id].state =
                      IF planned THEN "planned" ELSE "failed"]
    /\ UNCHANGED <<catVars, now, ncalls, task, storeVars, putVars, engine, ctxVars, results, partVars>>

\* ctx.execute_stream(plan).await, then the insert and Ok(schema).
query_to_stream_execute(p, executed) ==
    LET f == flight[p] IN
    /\ f.pc = "execute"
    /\ flight' = [flight EXCEPT ![p] =
          [f EXCEPT !.pc = "idle", !.res = IF executed THEN "schema" ELSE "error"]]
    /\ streams' = [streams EXCEPT ![f.query_id].state =
                      IF executed THEN "stored" ELSE "failed"]
    /\ results' = IF executed THEN results_insert(results, f.query_id) ELSE results
    /\ UNCHANGED <<catVars, now, ncalls, task, storeVars, putVars, engine, ctxVars, partVars>>

\* fetch_stream(query_id): results.remove(query_id).ok_or_else(Status::not_found),
\* else Ok(batch_stream_mutex.into_inner()).
fetch_stream_by_id(p, query_id) ==
    /\ flight[p].pc = "idle"
    /\ flight' = [flight EXCEPT ![p] =
          [op |-> "fetch_stream", pc |-> "idle", query_id |-> query_id,
           res |-> IF query_id \in results THEN "stream" ELSE "not_found"]]
    /\ results' = results_remove(results, query_id)
    /\ streams' = IF query_id \in results
                  THEN [streams EXCEPT ![query_id].handed = @ + 1]
                  ELSE streams
    /\ UNCHANGED <<catVars, now, ncalls, task, storeVars, putVars, engine, ctxVars, partVars>>

NextFlight ==
    \/ \E p \in Procs, planned \in BOOLEAN : query_to_stream(p, planned)
    \/ \E p \in Procs, executed \in BOOLEAN : query_to_stream_execute(p, executed)
    \/ \E p \in Procs, query_id \in QueryIds : fetch_stream_by_id(p, query_id)

SpecFlight == InitCat /\ [][NextFlight]_vars

\* ---------------------------------------------------------------- VACUUM
\* SELECT DISTINCT object_storage_id FROM physical_partition
\*   WHERE object_storage_id NOT IN (SELECT object_storage_id FROM physical_partition
\*       WHERE id IN (SELECT physical_partition_id FROM table_partition))
get_orphan_partition_store_ids_by_row(pp, tp) ==
    {x.object_storage_id :
        x \in {y \in pp : y.id \notin {z.physical_partition_id : z \in tp}}}

get_orphan_partition_store_ids(pp, tp) ==
    {x.object_storage_id : x \in pp} \
        {x.object_storage_id :
            x \in {y \in pp : y.id \in {z.physical_partition_id : z \in tp}}}

\* DELETE FROM physical_partition WHERE object_storage_id IN (...)
delete_partitions(pp, object_storage_ids) ==
    {x \in pp : x.object_storage_id \notin object_storage_ids}

\* VACUUM PARTITIONS goes straight to gc_partitions; VACUUM TABLE name and
\* VACUUM DATABASE name call delete_old_table_versions(table_id) first.
stmt_vacuum(p, partitions, table_id) ==
    /\ vacuum[p].pc = "idle" /\ task[p] = Idle
    /\ ncalls < MaxCalls
    /\ ncalls' = ncalls + 1
    /\ vacuum' = [vacuum EXCEPT ![p] =
          [VacuumIdle EXCEPT !.pc = IF partitions THEN "gc" ELSE "versions",
                             !.table_id = table_id]]
    /\ UNCHANGED <<catVars, now, task, storeVars, putVars, engine, ctxVars, flightVars,
                   physical_partition, table_partition, internal_object_store>>

\* Ok(row_count) of delete_old_table_versions: gc_partitions follows.
vacuum_delete_old_table_versions(p) ==
    /\ vacuum[p].pc = "versions"
    /\ table_version' = table_version \ old_table_versions(table_version, vacuum[p].table_id)
    /\ table_column' = CascadeColumns(table_version', table_column)
    /\ table_partition' = CascadePartitions(table_version', table_partition)
    /\ vacuum' = [vacuum EXCEPT ![p] = [@ EXCEPT !.pc = "gc"]]
    /\ UNCHANGED <<database, collection, table, dropped_table, ids, function, now, ncalls,
                   task, storeVars, putVars, engine, ctxVars, flightVars, physical_partition,
                   internal_object_store>>

\* gc_partitions: the orphans are asked for; with none there is nothing to do.
gc_partitions_orphans(p) ==
    LET orphans == get_orphan_partition_store_ids(physical_partition, table_partition) IN
    /\ vacuum[p].pc = "gc"
    /\ vacuum' = [vacuum EXCEPT ![p] =
          IF orphans = {} THEN VacuumIdle
          ELSE [@ EXCEPT !.pc = "objects", !.orphans = orphans]]
    /\ UNCHANGED <<catVars, now, ncalls, task, storeVars, putVars, engine, ctxVars, flightVars,
                   physical_partition, table_partition, internal_object_store>>

\* gc_partitions: the object of one reported orphan is deleted from the store.
gc_partitions_delete_object(p, object_storage_id) ==
    /\ vacuum[p].pc = "objects"
    /\ object_storage_id \in vacuum[p].orphans \ vacuum[p].deleted
    /\ internal_object_store' = internal_object_store \ {object_storage_id}
    /\ vacuum' = [vacuum EXCEPT ![p] = [@ EXCEPT !.deleted = @ \cup {object_storage_id}]]
    /\ UNCHANGED <<catVars, now, ncalls, task, storeVars, putVars, engine, ctxVars, flightVars,
                   physical_partition, table_partition>>

\* gc_partitions: delete_partitions on the reported ids ends the statement.
gc_partitions_delete_partitions(p) ==
    /\ vacuum[p].pc = "objects"
    /\ vacuum[p].deleted = vacuum[p].orphans
    /\ physical_partition' = delete_partitions(physical_partition, vacuum[p].deleted)
    /\ vacuum' = [vacuum EXCEPT ![p] = VacuumIdle]
    /\ UNCHANGED <<catVars, now, ncalls, task, storeVars, putVars, engine, ctxVars, flightVars,
                   table_partition, internal_object_store>>

\* Any await of the statement can return Err, and the process can stop.
vacuum_error(p) ==
    /\ vacuum[p].pc # "idle"
    /\ vacuum' = [vacuum EXCEPT ![p] = VacuumIdle]
    /\ UNCHANGED <<catVars, now, ncalls, task, storeVars, putVars, engine, ctxVars, flightVars,
                   physical_partition, table_partition, internal_object_store>>

\* Two legacy tables as earlier releases wrote them: t with an old and a new
\* version, u with one version; three partitions over two objects, the first two
\* holding the same object; each version lists any of the partitions.
PartitionIds == 1..3
PartitionLinks ==
    SUBSET {[table_version_id |-> v, physical_partition_id |-> i] :
               v \in 1..MaxVersionRows, i \in PartitionIds}

InitVacuum ==
    /\ database = {[id |-> 1, name |-> "default"]}
    /\ collection = {[id |-> 1, database_id |-> 1, name |-> DEFAULT_SCHEMA],
                     [id |-> 2, database_id |-> 1, name |-> "s2"]}
    /\ table = {[id |-> 1, collection_id |-> 1, name |-> "t", uuid |-> LegacyUuid,
                 legacy |-> TRUE],
                [id |-> 2, collection_id |-> 1, name |-> "u", uuid |-> LegacyUuid + 1,
                 legacy |-> TRUE]}
    /\ table_version = {[id |-> 1, table_id |-> 1, version |-> 0, creation_time |-> 0],
                        [id |-> 2, table_id |-> 1, version |-> 1, creation_time |-> 0],
                        [id |-> 3, table_id |-> 2, version |-> 0, creation_time |-> 0]}
    /\ table_column = {[table_version_id |-> v, name |-> "a"] : v \in 1..3}
    /\ dropped_table = {}
    /\ ids = [table |-> 2, version |-> 3, database |-> 1, collection |-> 2, function |-> 0]
    /\ function = {}
    /\ now = 0
    /\ ncalls = 0
    /\ InitStore
    /\ InitPut
    /\ InitEngine
    /\ InitContext
    /\ InitFlight
    /\ task = [p \in Procs |-> Idle]
    /\ physical_partition = {[id |-> 1, object_storage_id |-> "o1"],
                             [id |-> 2, object_storage_id |-> "o1"],
                             [id |-> 3, object_storage_id |-> "o2"]}
    /\ table_partition \in PartitionLinks
    /\ internal_object_store = {"o1", "o2"}
    /\ vacuum = [p \in Procs |-> VacuumIdle]

NextVacuum ==
    \/ \E p \in Procs, name \in Names :
          vacuum[p].pc = "idle" /\ stmt_drop_table(p, DEFAULT_SCHEMA, name)
    \/ \E p \in Procs : task[p].stmt = "drop_table" /\ insert_dropped_tables(p, task[p].tid)
    \/ \E p \in Procs : drop_table_delete(p)
    \/ \E p \in Procs, partitions \in BOOLEAN, table_id \in {NoTable} \cup TableIds :
          stmt_vacuum(p, partitions, table_id)
    \/ \E p \in Procs : vacuum_delete_old_table_versions(p)
    \/ \E p \in Procs : gc_partitions_orphans(p)
    \/ \E p \in Procs, object_storage_id \in internal_object_store :
          gc_partitions_delete_object(p, object_storage_id)
    \/ \E p \in Procs : gc_partitions_delete_partitions(p)
    \/ \E p \in Procs : vacuum_error(p)
    \/ \E p \in Procs : repo_error(p)

SpecVacuum == InitVacuum /\ [][NextVacuum]_vars

\* ------------------------------------------------------------------- C1
\* C1: in every reachable state, whatever statement is in flight and wherever a
\* session has failed, every catalog table row names a uuid whose storage table
\* exists, and every catalog version row carries a version number that the
\* storage table of its table has committed.
C1_CatalogImpliesStorage ==
    /\ \A t \in table : delta[t.uuid] # <<>>
    /\ \A v \in table_version : \E t \in table :
          t.id = v.table_id /\ v.version \in 0..Version(delta[t.uuid])

\* A write has reached the catalog while a failed CREATE TABLE has left a
\* storage table that no catalog row names.
C1_Witness ==
    /\ \E v \in table_version : v.version >= 1
    /\ \E u \in StorageUuids : \A t \in table : t.uuid # u
    /\ \A p \in Procs : task[p] = Idle

\* ------------------------------------------------------------------- C4
\* C4: for every table, the catalog version rows taken in row-id order carry
\* strictly increasing version numbers under any interleaving of concurrent
\* INSERT, UPDATE and DELETE statements, and once every statement has finished
\* the newest catalog version row of a table carries the latest version of its
\* storage table.
NewestVersion(tid) ==
    CHOOSE v \in VersionsOf(tid) : \A w \in VersionsOf(tid) : w.id <= v.id

C4_VersionsFollowCommitOrder ==
    /\ \A v, w \in table_version :
          v.table_id = w.table_id /\ v.id < w.id => v.version < w.version
    /\ (\A p \in Procs : task[p] = Idle) =>
          \A t \in table : VersionsOf(t.id) # {} =>
              NewestVersion(t.id).version = Version(delta[t.uuid])

\* ------------------------------------------------------------------- C6
\* C6: a successful RENAME TABLE old -> new, within a schema or across schemas,
\* leaves the old name unresolved, makes the new name resolve to the same table
\* with the same rows, and changes nothing but the name and collection_id of
\* that one table row: uuid, version rows, columns and storage stay as they were.
LatestRows(objs, logs, uuid) == RowsAt(objs, logs[uuid], Version(logs[uuid]))

C6_RenameKeepsTable ==
    [][\A old_schema \in SchemaNames, old_name \in Names,
          new_schema \in SchemaNames, new_name \in Names :
          (stmt_rename(Writer, old_schema, old_name, new_schema, new_name) /\ table' # table) =>
             /\ table_provider(old_schema, old_name)' = {}
             /\ \E t \in table_provider(old_schema, old_name) :
                \E r \in table_provider(new_schema, new_name)' :
                   /\ r.id = t.id /\ r.uuid = t.uuid /\ r.legacy = t.legacy
                   /\ table' \ {r} = table \ {t}
                   /\ LatestRows(objects', delta', r.uuid) = LatestRows(objects, delta, t.uuid)
             /\ UNCHANGED <<table_version, table_column, delta, objects>>]_vars

\* A table that holds rows has been moved to the other schema.
C6_Witness ==
    \E t \in loaded_tables :
        /\ t.collection_id \in collection_id_by_name("s2")
        /\ CountRows(LatestRows(objects, delta, t.uuid)) > 0

\* ------------------------------------------------------------------- C7
\* C7: after any sequence of CREATE TABLE, INSERT (VALUES or SELECT, also from
\* the target itself), UPDATE and DELETE statements, the rows a SELECT reads
\* from each table are, as a multiset, the rows of the reference relation that
\* replayed the same statements.
C7_ContentMatchesReference ==
    task[Writer] = Idle =>
        \A t \in loaded_tables : LatestRows(objects, delta, t.uuid) = ref[t.uuid]

\* ------------------------------------------------------------------- C8
\* C8: a query of a table at the version V its timestamp resolves to returns
\* exactly the rows the table held right after V was committed, whatever was
\* committed to the table later, and never rows of two versions.
CommittedBy(log, ts) == {k \in 0..Version(log) : log[k + 1].ts <= ts}

C9_CommitsUnderWriteLock ==
    /\ \A d \in Dests : \A i \in 1..Len(dest_log[d]) :
          dest_log[d][i].nonempty => dest_log[d][i].locked
    /\ \A p \in Procs : put[p].rows > 0 => put[p].res \in {"none", "committed", "skipped", "rejected"}

RowCount(log) == SumOver(1..Len(log), [i \in 1..Len(log) |-> log[i].rows])

C12_TimeoutChangesNothing ==
    /\ [](\A p \in Procs :
            put[p].res = "rejected" =>
                \A i \in 1..Len(dest_log[put[p].dest]) :
                    dest_log[put[p].dest][i].call # put[p].id)
    /\ [][\A p \in Procs :
            put[p].pc = "wait" /\ put'[p].res = "rejected" =>
                /\ UNCHANGED <<dest_log, mem_seq, lock>>
                /\ put'[p].mem_seq = put[p].mem_seq
                /\ put'[p].dur_seq = put[p].dur_seq]_vars

\* ------------------------------------------------------------------ C13
\* C13: a process_put whose batches hold no row returns accepted = true with
\* the current sequence numbers; no storage commit is made on its behalf, not
\* even the one that creates the table of a destination that has none, and it
\* never holds the write lock.
C13_EmptyPutTouchesNothing ==
    /\ \A d \in Dests : \A i \in 1..Len(dest_log[d]) : dest_log[d][i].nonempty
    /\ \A p \in Procs : put[p].rows = 0 /\ put[p].res # "none" => put[p].res = "empty"
    /\ \A p \in Procs : lock = p => put[p].rows > 0

\* ------------------------------------------------------------------ C14
\* C14: once a process_put has returned, by a commit, by a skipped re-delivery,
\* by an error of the append or by the timeout, the write lock is not held for
\* it: the lock is held only by a call that is inside put_batches, so a call
\* that asks for the lock while no other call is in flight finds it free.
C14_LockReleasedOnReturn ==
    /\ \A p \in Procs : lock = p => put[p].pc \in {"locked", "append"}
    /\ \A p \in Procs :
          put[p].pc = "wait" /\ (\A q \in Procs \ {p} : put[q].pc = "idle") => lock = NoProc

\* A call has returned the error of the append, another call has committed
\* after it, and the lock is free.
C14_Witness ==
    /\ lock = NoProc
    /\ \E p, q \in Procs :
          /\ put[p].res = "append_error"
          /\ put[q].res = "committed" /\ put[q].id > put[p].id

\* ------------------------------------------------------------------ C15
\* C15: every wait for the lock inside process_put has a deadline: a call
\* blocked by a put that holds the write lock is answered within the timeout,
\* where it reads the in-memory sequence number as well as where it asks for
\* exclusive access.
C15_EveryLockWaitHasDeadline ==
    \A p \in Procs : put[p].waited <= PutTimeout

\* ------------------------------------------------------------------ C16
\* C16: a statement that returns an error leaves nothing of its catalog writes
\* visible to later statements: when CREATE TABLE or CREATE TABLE AS ends in an
\* error, the table the statement inserted is not among the tables that the
\* next statement loads for planning.
Created(t) ==
    \/ t.call = "create_table" /\ t.cpc >= 2
    \/ t.stmt = "ctas" /\ t.pc \notin {"storage", "catalog"}

C16_FailedStatementLeavesNothing ==
    [][\A p \in Procs :
          task[p].stmt \in {"create_table", "ctas"} /\ task'[p] = Idle /\ UNCHANGED catVars =>
              ~(Created(task[p]) /\
                \E x \in loaded_tables :
                    x.collection_id = task[p].coll /\ x.name = task[p].name)]_vars

ReadsCatalog(q) ==
    /\ engine.query[q].pc \in {"version", "plan"}
    /\ engine'.query[q] # engine.query[q]

C18_PlannedAgainstReloadedMirror ==
    [][\A q \in Queries :
          ReadsCatalog(q) =>
              \/ q \in engine.catalog.covers
              \/ engine.catalog.tables = engine.query[q].base]_vars

\* ------------------------------------------------------------------ C19
\* C19: a query with version-qualified references of which one cannot be
\* resolved (unknown table, version id that is no version of the table,
\* malformed timestamp) fails as a whole: it returns an error and no plan, and
\* a query that was planned has every one of its references resolved.
Unresolvable(q) ==
    LET t == engine.query[q] IN
    \/ /\ t.pc = "triage"
       /\ \E k \in 1..Len(t.refs) :
             /\ t.refs[k].kind = "vid"
             /\ ~\E v \in table_version, x \in table :
                   v.id = t.refs[k].arg /\ v.table_id = x.id /\ x.name = t.refs[k].name
    \/ /\ t.pc = "version"
       /\ t.refs[t.i].kind = "ts"
       /\ \/ t.refs[t.i].arg = BadTimestamp
          \/ ~\E x \in engine.catalog.tables : x.name = t.refs[t.i].name

C20_VersionedNamesArePrivate ==
    /\ [](\A q \in Queries :
            engine.query[q].pc \in {"triage", "version", "plan"} =>
                \A n \in engine.catalog.names : n.by = q)
    /\ [][\A q \in Queries :
            /\ engine.query[q].pc = "plan"
            /\ engine.query[q].plan = engine.query[q].refs
            /\ engine'.query[q] # engine.query[q]
            => engine'.query[q].res = "planned"]_vars

\* ------------------------------------------------------------------ C21
\* C21: CREATE TABLE IF NOT EXISTS of a name that already exists in the schema is
\* a no-op: no step of the statement adds a catalog row or a storage table or
\* changes the existing table.
C21_IfNotExistsIsNoOp ==
    [][\A p \in Procs :
          (/\ task[p].stmt = "create_table_if_not_exists"
           /\ task'[p] # task[p]
           /\ \E x \in table : x.collection_id = task[p].coll /\ x.name = task[p].name)
          => UNCHANGED <<catVars, storeVars>>]_vars

\* ------------------------------------------------------------------ C22
\* C22: CREATE SCHEMA IF NOT EXISTS s, executed when s already exists in the
\* database, succeeds and leaves the catalog unchanged.
C22_CreateSchemaIdempotent ==
    [][\A p \in Procs, schema_name \in NewSchemaNames :
          (/\ create_schema(p, schema_name, TRUE)
           /\ \E c \in collection : c.database_id = self_database_id /\ c.name = schema_name)
          => (reply'[p].res = "ok" /\ UNCHANGED catVars)]_vars

\* ------------------------------------------------------------------ C23
\* C23: every entry of the name->id map names a database of the catalog that has
\* its default schema, and the map never loses an entry; CREATE DATABASE on an
\* existing name changes neither catalog nor map, returning Ok with IF NOT
\* EXISTS and a plan error without; a CREATE DATABASE that returns Ok for a new
\* name has created the database row, its default schema and the map entry;
\* and scope_to_database succeeds exactly on the names of the map, with the id
\* of the database of that name.
MapEntryCreated(e) ==
    /\ \E d \in database : d.id = e.id /\ d.name = e.name
    /\ \E c \in collection : c.database_id = e.id /\ c.name = DEFAULT_SCHEMA

C23_MapNamesCreatedDatabases ==
    /\ [](\A e \in all_database_ids : MapEntryCreated(e))
    /\ [][/\ \A e \in all_database_ids : e \in all_database_ids'
          /\ \A p \in Procs, catalog_name \in DbNames, if_not_exists \in BOOLEAN :
                (/\ create_database_lookup(p, catalog_name, if_not_exists)
                 /\ get_database_id_by_name(catalog_name) # {})
                => /\ UNCHANGED <<catVars, all_database_ids>>
                   /\ reply'[p].res = IF if_not_exists THEN "ok" ELSE "PlanError"
          /\ \A p \in Procs :
                (create_database_default_schema(p) /\ reply'[p].res = "ok")
                => /\ [name |-> task[p].name, id |-> reply'[p].id] \in all_database_ids'
                   /\ \A e \in all_database_ids' : MapEntryCreated(e)'
          /\ \A p \in Procs, name \in DbNames :
                scope_to_database(p, name)
                => IF \E d \in database : d.name = name /\ \E e \in all_database_ids : e.id = d.id
                   THEN /\ reply'[p].res = "ok"
                        /\ \E d \in database : d.name = name /\ d.id = reply'[p].id
                   ELSE reply'[p].res = "PlanError"]_vars

\* A database created by this process has been scoped to.
C23_Witness ==
    \E p \in Procs :
        /\ reply[p].stmt = "scope_to_database" /\ reply[p].res = "ok"
        /\ reply[p].id # self_database_id
        /\ \E d \in database : d.name = "d2" /\ d.id = reply[p].id

\* ------------------------------------------------------------------ C27
\* C27: CREATE FUNCTION with a payload whose data cannot be decoded or cannot be
\* instantiated fails with an ExecutionError and registers and persists
\* nothing; and every function of the catalog has been registered in the engine.
C27_BadPayloadIsExecutionError ==
    /\ [](\A f \in function : f.database_id = self_database_id => f.name \in udfs)
    /\ [][\A p \in Procs, name \in FunctionNames, data \in Payloads :
            (create_function_register(p, name, data) /\ register_function_error(data) # "ok")
            => /\ reply'[p].res = "ExecutionError"
               /\ UNCHANGED <<udfs, function>>
               /\ task'[p] = Idle]_vars

\* ------------------------------------------------------------------ C24
\* C24: when a drop removes table rows (the DELETE of drop_table, drop_collection
\* or drop_database with its cascade), every non-legacy table it removes is gone
\* with all its versions and has exactly one DroppedTable record, which carries
\* the database name, collection name, table name and uuid the table had, with
\* status PENDING; and no record is added for a legacy table.
C24_DropsRecordWhatTheyRemove ==
    [][\A p \in Procs :
          (drop_table_delete(p) \/ drop_collection_delete(p) \/ drop_database_delete(p))
          => /\ \A x \in table \ table' :
                   /\ ~(\E v \in table_version' : v.table_id = x.id)
                   /\ ~x.legacy =>
                         /\ tables_to_drop({x}) \subseteq dropped_table'
                         /\ Cardinality({d \in dropped_table' : d.uuid = x.uuid}) = 1
             /\ \A d \in dropped_table' : d.uuid # LegacyUuid]_vars

\* ------------------------------------------------------------------ C25
\* C25: no step of DROP TABLE, DROP SCHEMA or drop_database changes the object
\* store or removes a DroppedTable record; a record disappears only in a step of
\* delete_dropped_table; and as long as a record exists, the storage table of
\* its uuid exists.
DropStep(p) ==
    \/ \E schema_name \in SchemaNames, name \in Names : stmt_drop_table(p, schema_name, name)
    \/ insert_dropped_tables(p, task[p].tid)
    \/ drop_table_delete(p)
    \/ \E schema_name \in SchemaNames : stmt_drop_schema(p, schema_name)
    \/ drop_collection_insert(p)
    \/ drop_collection_delete(p)
    \/ drop_database_begin(p, self_database_id)
    \/ drop_database_insert(p)
    \/ drop_database_delete(p)

C25_DropsKeepStorageAndRecords ==
    /\ [](\A d \in dropped_table : d.uuid \in StorageUuids)
    /\ [][/\ \A p \in Procs :
                DropStep(p) => (UNCHANGED storeVars /\ dropped_table \subseteq dropped_table')
          /\ ~(dropped_table \subseteq dropped_table')
                => \E p \in Procs, uuid \in Uuids : delete_dropped_table(p, uuid)]_vars

\* A drop has completed: the table is gone from the catalog, its record and its
\* storage are there.
C25_Witness ==
    /\ \A p \in Procs : task[p] = Idle
    /\ \E d \in dropped_table :
          /\ d.uuid \in StorageUuids
          /\ ~(\E x \in table : x.uuid = d.uuid)

\* ------------------------------------------------------------------ C26
\* C26: create_new_table_version(uuid, version) finds the version with the
\* greatest id of the table with that uuid when a table has the uuid, and fails
\* with NotFoundError, adding no row, when no table has it.
C26_NewVersionOrNotFound ==
    [][\A p \in Procs, uuid \in 1..MaxTables, version \in 1..MaxDeltaVersion :
          create_new_table_version_select(p, uuid, version)
          => /\ UNCHANGED catVars
             /\ IF \E t \in table : t.uuid = uuid
                THEN /\ task'[p].cpc = 2
                     /\ \E v \in table_version : v.id = task'[p].last
                ELSE /\ task'[p] = Idle
                     /\ interpret_error(create_new_table_version_select_error(uuid))
                           = "NotFoundError"]_vars

\* ------------------------------------------------------------------ C30
\* C30: ALTER TABLE ... RENAME TO returns an error and leaves the catalog
\* unchanged when the source table does not exist, when the target name exists,
\* when the target schema differs from the source schema and does not exist, and
\* when the target names another database; and move_table on a table id that no
\* row has fails with NotFoundError and changes nothing.
C30_RefusedRenameChangesNothing ==
    [][/\ \A p \in Procs, old_name \in Names, new_schema \in SchemaNames \cup {"s3"},
             new_name \in Names :
             (/\ stmt_rename(p, DEFAULT_SCHEMA, old_name, new_schema, new_name)
              /\ \/ get_table_id_by_name(DEFAULT_SCHEMA, old_name) = {}
                 \/ get_table_id_by_name(new_schema, new_name) # {}
                 \/ (new_schema # DEFAULT_SCHEMA /\ collection_id_by_name(new_schema) = {}))
             => /\ UNCHANGED catVars
                /\ rename_table_error(DEFAULT_SCHEMA, old_name, new_schema, new_name) # "none"
       /\ \A p \in Procs, new_catalog \in DbNames :
             stmt_rename_database(p, DEFAULT_SCHEMA, "t", new_catalog, DEFAULT_SCHEMA, "t")
             => (UNCHANGED catVars /\ reply'[p].res = "PlanError")
       /\ \A p \in Procs, table_id \in 1..MaxTables + 1, name \in Names,
             coll \in {NoColl} \cup CollectionIds :
             (move_table(p, table_id, name, coll) /\ table_id \notin TableIds)
             => /\ UNCHANGED catVars
                /\ interpret_error(move_table_error(table, table_id, name, coll))
                      = "NotFoundError"]_vars

\* A rename into another database has been refused and the table is where it was.
C30_Witness ==
    /\ \E p \in Procs : reply[p].stmt = "rename_table" /\ reply[p].res = "PlanError"
    /\ get_table_id_by_name(DEFAULT_SCHEMA, "t") # {}
    /\ \A p \in Procs : task[p] = Idle

\* ------------------------------------------------------------------- C28
\* C28: the endpoint answers NOT_MODIFIED to the ETag it issued for a query only
\* when every table the query scans is still at the version id it had when that
\* ETag was issued.
C28_NotModifiedOnlyIfUnchanged ==
    [][\A query \in HttpQueries :
          \A if_none_match \in IfNoneMatchOf(HttpClient, query) :
             (/\ cached_read_query(HttpClient, query, Sha256(query), if_none_match)
              /\ http'[HttpClient].status = "NOT_MODIFIED")
             => http[HttpClient].cached.versions = scanned_versions(query)]_vars

\* ------------------------------------------------------------------- C29
\* C29: a request whose plan mutates catalog or storage when executed is not
\* read-only for is_read_only, is answered NOT_READ_ONLY_QUERY and starts no
\* execution.
C29_GetNeverMutates ==
    [][\A query \in HttpQueries :
          \A if_none_match \in IfNoneMatchOf(HttpClient, query) :
             (/\ cached_read_query(HttpClient, query, Sha256(query), if_none_match)
              /\ create_logical_plan(query) \in Mutating)
             => /\ ~is_read_only(create_logical_plan(query))
                /\ http'[HttpClient].status = "NOT_READ_ONLY_QUERY"
                /\ UNCHANGED <<task, catVars, storeVars>>]_vars

\* ------------------------------------------------------------------- C31
\* C31: UPDATE and DELETE with a predicate take as removes exactly the files
\* that pruning selects; their commit is one transaction that removes these
\* files and adds the rewritten file, carries every other file over unchanged
\* and makes the storage version one higher; and the catalog version row the
\* statement then inserts makes the newest catalog version of the table one
\* higher.
Candidates(uuid, sel) == prune(objects, FilesAt(delta[uuid], Version(delta[uuid])), sel)

DmlPlanned(p, sel) ==
    \/ stmt_update(p, DEFAULT_SCHEMA, "t", sel, 2)
    \/ stmt_delete(p, DEFAULT_SCHEMA, "t", sel)

C31_RemovesAreTheCandidates ==
    \A p \in Procs, sel \in Predicates \ {<<>>} :
       DmlPlanned(p, sel) /\ task'[p].pc = "commit"
       => /\ task'[p].removes = Candidates(task'[p].uuid, sel)
          /\ UNCHANGED <<delta, objects>>

C31_OneTransaction ==
    \A p \in Procs :
       commit_actions(p)
       => LET u == task[p].uuid
              old == FilesAt(delta[u], Version(delta[u]))
              new == FilesAt(delta'[u], Version(delta'[u]))
              written == (1..Len(objects')) \ (1..Len(objects))
          IN
          /\ Version(delta'[u]) = Version(delta[u]) + 1
          /\ new = (old \ task[p].removes) \cup written
          /\ RowsOfFiles(objects', written) = task[p].rows
          /\ \A f \in 1..Len(objects) : objects'[f] = objects[f]
          /\ \A v \in Uuids \ {u} : delta'[v] = delta[v]

C31_CatalogVersionPlusOne ==
    \A p \in Procs :
       (/\ create_new_table_version_insert(p)
        /\ task[p].stmt \in {"update", "delete"}
        /\ table_version' # table_version)
       => /\ Cardinality(table_version') = Cardinality(table_version) + 1
          /\ \A t \in table : t.uuid = task[p].uuid =>
                NewestVersion(t.id)'.version = NewestVersion(t.id).version + 1

C31_PrunedRewriteAdvancesByOne ==
    [][C31_RemovesAreTheCandidates /\ C31_OneTransaction /\ C31_CatalogVersionPlusOne]_vars

\* ------------------------------------------------------------------- C32
\* C32: the version a DELETE prepares (the files it carries over plus the file
\* it rewrites) holds exactly the rows of the table for which the predicate is
\* not true, rows on which it is NULL included; without a predicate the DELETE
\* removes every file and writes no row.
C32_DeleteKeepsFalseAndNull ==
    [][\A p \in Procs, sel \in Predicates :
          stmt_delete(p, DEFAULT_SCHEMA, "t", sel) /\ task'[p].pc = "commit"
          => LET u == task'[p].uuid
                 files == FilesAt(delta[u], Version(delta[u]))
                 carried == files \ task'[p].removes
             IN
             /\ AddRows(RowsOfFiles(objects, carried), task'[p].rows)
                   = RefDelete(RowsOfFiles(objects, files), sel)
             /\ sel = <<>> => task'[p].removes = files /\ task'[p].rows = NoRows]_vars

\* ------------------------------------------------------------------- C36
\* C36: an UPDATE for which no file is a candidate (pruning selects none, or
\* the table has no file) ends at once and successfully: it starts no commit,
\* and storage version, files and catalog stay as they are.
NoCandidate(uuid, sel) ==
    LET files == FilesAt(delta[uuid], Version(delta[uuid])) IN
    (IF sel = <<>> THEN files ELSE prune(objects, files, sel)) = {}

C36_UpdateWithoutCandidatesIsNoOp ==
    [][\A p \in Procs, sel \in Predicates :
          stmt_update(p, DEFAULT_SCHEMA, "t", sel, 2) /\ NoCandidate(1, sel)
          => /\ task'[p] = Idle
             /\ UNCHANGED <<delta, objects, snap, catVars>>]_vars

\* An UPDATE has run on the table emptied by a DELETE, and the table is still
\* at the version the DELETE committed, without files.
C36_Witness ==
    /\ ncalls = 2
    /\ \A p \in Procs : task[p] = Idle
    /\ Version(delta[1]) = 2
    /\ FilesAt(delta[1], 2) = {}
    /\ ref[1] = NoRows
    /\ Cardinality(VersionsOf(1)) = 3

\* ------------------------------------------------------------------- C34
\* C34: get_all_columns_in_database called with an explicit set S of version ids
\* returns columns only of versions whose id is in S, for every S including the
\* empty set (for which it returns nothing); called without a set it returns, for
\* each table of the database, the columns of exactly its latest version.
VersionIdSets == SUBSET (1..MaxVersionRows)

C34_ExplicitSetRestricts ==
    \A S \in VersionIdSets :
        \A r \in get_all_columns_in_database(self_database_id, <<S>>) :
            r.table_version_id \in S

C34_NonEmptySetRestricts ==
    \A S \in VersionIdSets \ {{}} :
        get_all_columns_in_database(self_database_id, <<S>>) =
            {r \in get_all_columns_in_database(self_database_id, <<{}>>) :
                r.table_version_id \in S}

C34_WithoutSetIsLatest ==
    \A r \in get_all_columns_in_database(self_database_id, <<>>) :
        r.table_version_id = first_value(table_version, r.table_id)

C34_ColumnsOnlyOfRequestedVersions ==
    /\ C34_ExplicitSetRestricts
    /\ C34_WithoutSetIsLatest

\* ------------------------------------------------------------------- C38
\* C38: a result stream stored by query_to_stream under a query id is handed out by
\* fetch_stream at most once: a fetch receives the stream exactly when the query
\* of that id stored one and no earlier fetch received it, so every later fetch
\* of the id and every fetch of an id whose planning or execution failed returns
\* not_found, and of two fetches of the same id by different clients exactly one
\* receives the stream.
C38_FetchStep(p, q) ==
    /\ fetch_stream_by_id(p, q)
    /\ flight'[p].res \in {"stream", "not_found"}
    /\ flight'[p].res = "stream" <=> (streams[q].state = "stored" /\ streams[q].handed = 0)
    /\ q \notin results'

C38_HandedOutAtMostOnce ==
    [][/\ \A p \in Procs, q \in QueryIds : fetch_stream_by_id(p, q) => C38_FetchStep(p, q)
       /\ \A q \in QueryIds : streams'[q].handed <= 1
       /\ \A q \in QueryIds : streams'[q].state # "stored" => q \notin results']_vars

\* Both clients have fetched the stored stream of the same id: one received it, the
\* other was told not_found; a fetch of a failed query has been refused as well.
C38_Witness ==
    \E q \in QueryIds :
        /\ streams[q].state = "stored" /\ streams[q].handed = 1
        /\ \A p \in Procs : flight[p].op = "fetch_stream" /\ flight[p].query_id = q
        /\ {flight[p].res : p \in Procs} = {"stream", "not_found"}
        /\ \E r \in QueryIds : streams[r].state = "failed"

\* ------------------------------------------------------------------- C37
\* C37: a successful CREATE TABLE AS leaves the new table with exactly two
\* versions in storage and in the catalog, the first empty (from the table
\* creation) and the second holding the rows of the source query; CREATE TABLE
\* without query leaves exactly one version.
TableOfUuid(tbls, uuid) == {t \in tbls : t.uuid = uuid}

\* The last step of the statement of session p, returning Ok.
CtasReturnsOk(p) ==
    /\ task[p].stmt = "ctas" /\ task[p].call = "create_new_table_version"
    /\ create_new_table_version_columns(p)
    /\ \E v \in table_version : v.id = task[p].vid

CreateTableReturnsOk(p) ==
    /\ task[p].stmt = "create_table" /\ task[p].call = "create_table"
    /\ create_table_insert_columns(p)
    /\ \E v \in table_version : v.id = task[p].vid

C37_TwoVersionsInStorage(p) ==
    LET uuid == task[p].uuid IN
    /\ Version(delta'[uuid]) = 1
    /\ RowsAt(objects', delta'[uuid], 0) = NoRows
    /\ RowsAt(objects', delta'[uuid], 1) = task[p].rows

C37_TwoVersionsInCatalog(p) ==
    \A t \in TableOfUuid(table', task[p].uuid) :
        /\ Cardinality({v \in table_version' : v.table_id = t.id}) = 2
        /\ {v.version : v \in {w \in table_version' : w.table_id = t.id}} = {0, 1}

C37_OneVersion(p) ==
    /\ Version(delta'[task[p].uuid]) = 0
    /\ RowsAt(objects', delta'[task[p].uuid], 0) = NoRows
    /\ \A t \in TableOfUuid(table', task[p].uuid) :
          /\ Cardinality({v \in table_version' : v.table_id = t.id}) = 1
          /\ \A v \in table_version' : v.table_id = t.id => v.version = 0

C37_CreateTableAsLeavesTwoVersions ==
    [][\A p \in Procs :
          /\ CtasReturnsOk(p) => C37_TwoVersionsInStorage(p) /\ C37_TwoVersionsInCatalog(p)
          /\ CreateTableReturnsOk(p) => C37_OneVersion(p)]_vars

\* ------------------------------------------------------------------- C35
\* C35: at most one batch append (put_batches) is in progress at any time across
\* all destinations: two concurrent process_put calls with non-empty batches for
\* different destinations never append at the same time, and the second either
\* waits for the first to finish or times out with accepted = false.
InPutBatches(p) == put[p].pc \in {"locked", "append"}

C35_LeavesTheWait(p) ==
    \/ /\ put'[p].pc = "locked"
       /\ \A q \in Procs : ~InPutBatches(q)
    \/ /\ put'[p].pc = "idle" /\ put'[p].res = "rejected"
       /\ \E q \in Procs \ {p} : InPutBatches(q)
       /\ dest_log' = dest_log

C35_OneBatchAppendAtATime ==
    [][/\ Cardinality({p \in Procs : put'[p].pc \in {"locked", "append"}}) <= 1
       /\ \A p \in Procs : put[p].pc = "wait" /\ put'[p].pc # "wait" => C35_LeavesTheWait(p)
       /\ \A d \in Dests :
             Len(dest_log[d]) >= 1 /\ dest_log'[d] # dest_log[d] =>
                /\ \E p \in Procs : InPutBatches(p) /\ put[p].dest = d /\ lock = p
                /\ \A e \in Dests \ {d} : dest_log'[e] = dest_log[e]]_vars

\* One call is appending to d1 while the call for d2, with a non-empty batch, has
\* waited for the lock as long as the timeout allows.
C35_Witness ==
    /\ put[1].pc = "append" /\ put[1].dest = "d1" /\ put[1].seq > put[1].dur_seq
    /\ put[2].dest = "d2" /\ put[2].rows > 0
    /\ put[2].pc = "wait" /\ put[2].waited = PutTimeout

\* ------------------------------------------------------------------- C33
\* C33: VACUUM never makes a retained version unreadable: after
\* delete_old_table_versions, the set of storage object ids reported as orphans
\* and then deleted contains no object that is still referenced by a partition
\* of any retained table version, under any prior sequence of writes and drops.
ReferencedObjects ==
    {x.object_storage_id :
        x \in {y \in physical_partition :
                  \E z \in table_partition :
                      /\ z.physical_partition_id = y.id
                      /\ \E v \in table_version : v.id = z.table_version_id}}

\* Every partition a retained version lists still has its row and its object.
Readable(tv, tp, pp, store) ==
    \A z \in tp :
        (\E v \in tv : v.id = z.table_version_id) =>
            \E y \in pp : y.id = z.physical_partition_id /\ y.object_storage_id \in store

C33_GcStep(p) ==
    /\ gc_partitions_orphans(p) => vacuum'[p].orphans \cap ReferencedObjects = {}
    /\ \A o \in internal_object_store :
          gc_partitions_delete_object(p, o) => o \notin ReferencedObjects
    /\ gc_partitions_delete_partitions(p) => vacuum[p].deleted \cap ReferencedObjects = {}

C33_VacuumKeepsRetainedVersionsReadable ==
    [][/\ \A p \in Procs : C33_GcStep(p)
       /\ Readable(table_version', table_partition', physical_partition',
                   internal_object_store')]_vars

\* VACUUM has removed the old version of t and the object no partition lists any
\* more; the shared object is kept because one of its two partitions is listed.
C33_Witness ==
    /\ \A p \in Procs : vacuum[p].pc = "idle"
    /\ {v.id : v \in table_version} = {2, 3}
    /\ internal_object_store = {"o1"}
    /\ {x.id : x \in physical_partition} = {1, 2}
    /\ {z.physical_partition_id : z \in table_partition} = {1}

\* ------------------------------------------------------------------- C2
\* C2: in every reachable catalog state, the states between the separate
\* inserts of create_table included, every live table has at least one
\* table_version row.
C2_EveryTableHasVersion ==
    \A t \in table : VersionsOf(t.id) # {}

\* ------------------------------------------------------------------- C3
\* C3: after delete_old_table_versions(all) every table has exactly one version
\* row, the one ranked first by (creation_time desc, id desc); the returned
\* count is the number of rows removed; with one version per table nothing is
\* removed and 0 is returned.
C3_DeleteOldLeavesOneLatest ==
    [][(\E p \in Procs : delete_old_table_versions(p, NoTable)) =>
          /\ \A t \in table' :
                \E v \in table_version' :
                    /\ {w \in table_version' : w.table_id = t.id} = {v}
                    /\ v.id = first_value(table_version, t.id)
          /\ rows_affected(table_version, NoTable)
                = Cardinality(table_version) - Cardinality(table_version')
          /\ (\A t \in table : Cardinality(VersionsOf(t.id)) = 1) =>
                (table_version' = table_version
                    /\ rows_affected(table_version, NoTable) = 0)
      ]_vars

\* ------------------------------------------------------------------- C5
\* C5: no two live tables share (database, collection, name); a create_table or
\* move_table that would produce a duplicate fails and changes nothing; once
\* drop_table has deleted a table its name slot is free again, whatever
\* dropped_table holds.
SameSlot(t1, t2) == t1.collection_id = t2.collection_id /\ t1.name = t2.name

====
